---- MODULE Spec2Model ----
(***************************************************************************)
(* pynastran95: the execution harness (runner.py) and the output parser    *)
(* (parser.py) as a state machine.                                         *)
(*                                                                         *)
(* Text is modelled by TLA+ strings: a document, a path, an environment    *)
(* value are the very character strings the Python code handles, and the   *)
(* string operations of the code (in, startswith, /, str) are operators    *)
(* on them.                                                                *)
(***************************************************************************)
EXTENDS Integers, Sequences, FiniteSets, TLC

VARIABLES
    dirs,       \* the directories that exist in the file system
    files,      \* the regular files that exist: path -> content
    environ,    \* os.environ of the calling process: name -> value
    built,      \* whether the f2py extension (_nastran_core*.so) is present
    self,       \* the NastranRunner object (and the outcome of __init__)
    pc,         \* per call of run(): the position in the code
    loc,        \* per call of run(): the local variables
    child,      \* per call of run(): the child process of subprocess.run
    clock,      \* time.monotonic()
    hist,       \* per call of run(): what the call has done so far
    document,   \* the text handed to a parser function
    layout,     \* the lines `document` was printed from, line by line
    numpy2,     \* whether the installed NumPy refuses out-of-range integers
    answer,     \* what the parser functions called on `document` returned,
                \* in the order of the calls
    scan        \* a parser function followed loop iteration by loop
                \* iteration: the function, the loop it is in, its indices

vars == << dirs, files, environ, built, self, pc, loc, child, clock, hist,
           document, layout, numpy2, answer, scan >>

runnerVars == << dirs, files, environ, built, self, pc, loc, child, clock, hist >>
parserVars == << document, layout, numpy2, answer, scan >>

(***************************************************************************)
(* Bounds of the model.                                                    *)
(***************************************************************************)
NumTempNames == 2        \* distinct random suffixes mkdtemp can draw
MaxRc == 1               \* exit codes of the engine range over -1..MaxRc
MaxClock == 2            \* the monotonic clock is followed up to this value
MaxRows == 3             \* lines in the body of a single printed table
MaxTables == 2           \* tables of one kind in a print stream
MaxGroups == 2           \* packed groups on a shear-panel line

\* the callers of run(): two, as in the scenario of two concurrent runs
Threads == {1, 2}

(***************************************************************************)
(* Optional values: None is the empty tuple, a present value a 1-tuple.    *)
(***************************************************************************)
None == << >>
Some(v) == << v >>

(***************************************************************************)
(* Strings.                                                                *)
(***************************************************************************)
\* Python: sub in s
In(sub, s) ==
    \E i \in 1..(Len(s) - Len(sub) + 1) : SubSeq(s, i, i + Len(sub) - 1) = sub

\* Python: s.startswith(prefix)
StartsWith(s, prefix) ==
    /\ Len(prefix) <= Len(s)
    /\ SubSeq(s, 1, Len(prefix)) = prefix

\* pathlib: parent / name
Join(parent, name) == parent \o "/" \o name

\* position of the last "/" of a path (0 when there is none)
LastSlash(p) ==
    LET S == { i \in 1..Len(p) : SubSeq(p, i, i) = "/" }
    IN  IF S = {} THEN 0 ELSE CHOOSE i \in S : \A j \in S : j <= i

\* the directory a path lies directly in
Dirname(p) == SubSeq(p, 1, LastSlash(p) - 1)

\* p is an entry directly inside directory d
DirectlyInside(p, d) ==
    /\ StartsWith(p, d \o "/")
    /\ LastSlash(p) = Len(d) + 1
    /\ Len(p) > Len(d) + 1

\* p lies somewhere below directory d
Below(p, d) == StartsWith(p, d \o "/")

(***************************************************************************)
(* Mappings (dict).                                                        *)
(***************************************************************************)
EmptyMap == [k \in {} |-> ""]

\* d[k] = v
Put(d, k, v) == [n \in (DOMAIN d) \cup {k} |-> IF n = k THEN v ELSE d[n]]

\* d.pop(k, None)
Pop(d, k) == [n \in (DOMAIN d) \ {k} |-> d[n]]

\* d.get(k)
Get(d, k) == IF k \in DOMAIN d THEN Some(d[k]) ELSE None

(***************************************************************************)
(* Text operations of the parser (str methods, int(), float()).            *)
(* Line indices are those of the Python code (0-based): line i of `lines`  *)
(* is lines[i + 1].                                                        *)
(***************************************************************************)
Char(s, i) == SubSeq(s, i, i)

\* the characters str.strip() and str.split() treat as white space
IsSpace(c) == c \in {" ", "\t", "\n", "\r"}

\* index of the first character of s satisfying a test, Len(s) + 1 if none
FirstNewline(s) ==
    LET S == { i \in 1..Len(s) : Char(s, i) = "\n" }
    IN  IF S = {} THEN Len(s) + 1 ELSE CHOOSE i \in S : \A j \in S : i <= j

FirstSpace(s) ==
    LET S == { i \in 1..Len(s) : IsSpace(Char(s, i)) }
    IN  IF S = {} THEN Len(s) + 1 ELSE CHOOSE i \in S : \A j \in S : i <= j

FirstNonSpace(s) ==
    LET S == { i \in 1..Len(s) : ~IsSpace(Char(s, i)) }
    IN  IF S = {} THEN Len(s) + 1 ELSE CHOOSE i \in S : \A j \in S : i <= j

LastNonSpace(s) ==
    LET S == { i \in 1..Len(s) : ~IsSpace(Char(s, i)) }
    IN  IF S = {} THEN 0 ELSE CHOOSE i \in S : \A j \in S : j <= i

\* str.splitlines(): the lines of a text, line terminators removed
RECURSIVE splitlines(_)
splitlines(s) ==
    IF s = "" THEN << >>
    ELSE LET n == FirstNewline(s)
         IN  << SubSeq(s, 1, n - 1) >> \o splitlines(SubSeq(s, n + 1, Len(s)))

\* str.strip()
strip(s) == SubSeq(s, FirstNonSpace(s), LastNonSpace(s))

\* str.split(): the white-space separated tokens
RECURSIVE split(_)
split(s) ==
    LET b == FirstNonSpace(s)
    IN  IF b > Len(s) THEN << >>
        ELSE LET rest == SubSeq(s, b, Len(s))
                 e == FirstSpace(rest)
             IN  << SubSeq(rest, 1, e - 1) >> \o split(SubSeq(rest, e, Len(rest)))

\* str.lower() on the letters that matter to float()
LowerChar(c) ==
    CASE c = "E" -> "e" [] c = "I" -> "i" [] c = "N" -> "n" [] c = "F" -> "f"
      [] c = "A" -> "a" [] c = "T" -> "t" [] c = "Y" -> "y" [] OTHER -> c

RECURSIVE lower(_)
lower(s) == IF s = "" THEN "" ELSE LowerChar(Head(s)) \o lower(Tail(s))

DigitChars == "0123456789"
IsDigit(c) == \E d \in 1..10 : Char(DigitChars, d) = c
DigitVal(c) == (CHOOSE d \in 1..10 : Char(DigitChars, d) = c) - 1

\* a digit string in which single underscores may separate digits
IsDigitPart(s) ==
    /\ Len(s) > 0
    /\ IsDigit(Char(s, 1))
    /\ IsDigit(Char(s, Len(s)))
    /\ \A i \in 1..Len(s) : IsDigit(Char(s, i)) \/ Char(s, i) = "_"
    /\ \A i \in 1..(Len(s) - 1) : ~(Char(s, i) = "_" /\ Char(s, i + 1) = "_")

RECURSIVE DigitsOf(_)
DigitsOf(s) ==
    IF s = "" THEN ""
    ELSE IF Head(s) = "_" THEN DigitsOf(Tail(s)) ELSE Head(s) \o DigitsOf(Tail(s))

RECURSIVE NatOfDigits(_, _)
NatOfDigits(s, acc) ==
    IF s = "" THEN acc ELSE NatOfDigits(Tail(s), 10 * acc + DigitVal(Head(s)))

HasSign(s) == Len(s) > 0 /\ Char(s, 1) \in {"+", "-"}
Unsigned(s) == IF HasSign(s) THEN Tail(s) ELSE s
SignOf(s) == IF Len(s) > 0 /\ Char(s, 1) = "-" THEN -1 ELSE 1

\* int(tok) does not raise ValueError
\* mutant of int_ok: a sign is not accepted
int_ok_unsigned(tok) == IsDigitPart(tok)

int_ok(tok) == IsDigitPart(Unsigned(tok))

\* the value of a short signed digit string, as a number of the model
small_int(tok) == SignOf(tok) * NatOfDigits(DigitsOf(Unsigned(tok)), 0)

\* a digit string without its leading zeros ("0" for zero)
RECURSIVE NoLeadingZeros(_)
NoLeadingZeros(ds) ==
    IF Len(ds) > 1 /\ Head(ds) = "0" THEN NoLeadingZeros(Tail(ds)) ELSE ds

\* int(tok): a Python integer has no width, it is its sign and its digits
int(tok) ==
    LET ds == NoLeadingZeros(DigitsOf(Unsigned(tok)))
    IN  [neg |-> SignOf(tok) = -1 /\ ds # "0", digits |-> ds]

\* The parts of a decimal literal: integer digits, fraction digits, exponent.
FirstIndexOf(s, c) ==
    LET S == { i \in 1..Len(s) : Char(s, i) = c }
    IN  IF S = {} THEN Len(s) + 1 ELSE CHOOSE i \in S : \A j \in S : i <= j

Mantissa(u) == SubSeq(u, 1, FirstIndexOf(u, "e") - 1)
Exponent(u) == SubSeq(u, FirstIndexOf(u, "e") + 1, Len(u))
IntPart(m) == SubSeq(m, 1, FirstIndexOf(m, ".") - 1)
FracPart(m) == SubSeq(m, FirstIndexOf(m, ".") + 1, Len(m))

\* float(tok) does not raise ValueError
float_ok(tok) ==
    LET u == lower(Unsigned(tok))
        m == Mantissa(u)
    IN  \/ u \in {"inf", "infinity", "nan"}
        \/ /\ IntPart(m) = "" \/ IsDigitPart(IntPart(m))
           /\ FracPart(m) = "" \/ IsDigitPart(FracPart(m))
           /\ IntPart(m) # "" \/ FracPart(m) # ""
           /\ In("e", u) => IsDigitPart(Unsigned(Exponent(u)))

\* a decimal value m * 10^e in normal form: m carries no trailing zero
RECURSIVE Normal(_, _)
Normal(m, e) ==
    IF m = 0 THEN [kind |-> "num", m |-> 0, e |-> 0]
    ELSE IF m % 10 = 0 THEN Normal(m \div 10, e + 1)
    ELSE [kind |-> "num", m |-> m, e |-> e]

\* float(tok): the value of the literal (the decimal it denotes)
float(tok) ==
    LET u == lower(Unsigned(tok))
        m == Mantissa(u)
        f == DigitsOf(FracPart(m))
        x == IF In("e", u) THEN small_int(Exponent(u)) ELSE 0
    IN  IF u \in {"inf", "infinity"} THEN [kind |-> "inf", m |-> SignOf(tok), e |-> 0]
        ELSE IF u = "nan" THEN [kind |-> "nan", m |-> 0, e |-> 0]
        ELSE Normal(SignOf(tok) * NatOfDigits(DigitsOf(IntPart(m)) \o f, 0), x - Len(f))


(***************************************************************************)
(* parser.py                                                               *)
(***************************************************************************)
\* a Python integer of at most n digits whose digits d satisfy d <= top
\* (compared in groups of at most nine digits), top having n digits
RECURSIVE DigitsAtMost(_, _)
DigitsAtMost(d, top) ==
    IF Len(d) # Len(top) THEN Len(d) < Len(top)
    ELSE IF Len(d) <= 9 THEN NatOfDigits(d, 0) <= NatOfDigits(top, 0)
    ELSE LET a == NatOfDigits(SubSeq(d, 1, 9), 0)
             b == NatOfDigits(SubSeq(top, 1, 9), 0)
         IN  IF a # b THEN a < b
             ELSE DigitsAtMost(SubSeq(d, 10, Len(d)), SubSeq(top, 10, Len(top)))

\* the Python integer n lies in the range of a C int32 / int64
fits_int32(n) ==
    DigitsAtMost(n.digits, IF n.neg THEN "2147483648" ELSE "2147483647")
fits_int64(n) ==
    DigitsAtMost(n.digits, IF n.neg THEN "9223372036854775808"
                           ELSE "9223372036854775807")

\* the low 32 bits of a digit string, as two 16-bit halves
RECURSIVE Low32(_, _)
Low32(d, acc) ==
    IF d = "" THEN acc
    ELSE LET lo == acc.lo * 10 + DigitVal(Head(d))
         IN  Low32(Tail(d), [hi |-> (acc.hi * 10 + lo \div 65536) % 65536,
                             lo |-> lo % 65536])

\* the int32 a C cast makes of the Python integer n (two's complement)
int32(n) ==
    LET u == Low32(n.digits, [hi |-> 0, lo |-> 0])
        v == IF ~n.neg THEN u
             ELSE IF u.lo = 0 THEN [hi |-> (65536 - u.hi) % 65536, lo |-> 0]
             ELSE [hi |-> 65535 - u.hi, lo |-> 65536 - u.lo]
    IN  IF v.hi >= 32768 THEN (v.hi - 65536) * 65536 + v.lo
        ELSE v.hi * 65536 + v.lo

\* np.array(ids, dtype=np.int32) raises OverflowError: NumPy 2 refuses every
\* integer outside int32, NumPy 1 every integer outside the C long
array_raises(ids) ==
    \E k \in 1..Len(ids) :
        IF numpy2 THEN ~fits_int32(ids[k]) ELSE ~fits_int64(ids[k])

\* np.array(ids, dtype=np.int32), when it does not raise
int32_array(ids) == [k \in 1..Len(ids) |-> int32(ids[k])]

\* np.array(values, dtype=np.float64)
float64_array(values) == values

\* a parser function left by exception e instead of returning
Raise(e) == << [exc |-> e] >>
IsRaise(r) == r # << >> /\ "exc" \in DOMAIN r[1]

_is_page_break(line) == Len(line) > 0 /\ Char(line, 1) = "1"

\* mutant of _is_double_space: no line is a double-space line
_is_double_space_never(line) == FALSE

_is_double_space(line) == Len(line) > 0 /\ Char(line, 1) = "0"

\* while i < len(lines) and marker not in lines[i]: i += 1
RECURSIVE skip_to(_, _, _)
skip_to(lines, i, marker) ==
    IF i < Len(lines) /\ ~In(marker, lines[i + 1])
    THEN skip_to(lines, i + 1, marker)
    ELSE i

\* if i < len(lines) and marker in lines[i]: i += 1
skip_if(lines, i, marker) ==
    IF i < Len(lines) /\ In(marker, lines[i + 1]) THEN i + 1 ELSE i

\* every token at the (0-based) positions ps converts with float()
floats_ok(parts, ps) == \A k \in ps : float_ok(parts[k + 1])

\* mutant of displacement_rows: a row whose ID was met before is dropped
RECURSIVE displacement_rows_unique(_, _)
displacement_rows_unique(lines, acc) ==
    IF ~(acc.i < Len(lines)) THEN acc
    ELSE LET line == lines[acc.i + 1]
             stripped == strip(line)
             parts == split(stripped)
         IN  IF _is_page_break(line) \/ _is_double_space(line) THEN acc
             ELSE IF stripped = ""
             THEN displacement_rows_unique(lines, [acc EXCEPT !.i = @ + 1])
             ELSE IF Len(parts) >= 8 /\ int_ok(parts[1]) /\ floats_ok(parts, 2..7)
             THEN IF \E k \in 1..Len(acc.node_ids) : acc.node_ids[k] = int(parts[1])
                  THEN displacement_rows_unique(lines, [acc EXCEPT !.i = @ + 1])
                  ELSE displacement_rows_unique(lines,
                         [i |-> acc.i + 1,
                          node_ids |-> Append(acc.node_ids, int(parts[1])),
                          translations |-> Append(acc.translations,
                              << float(parts[3]), float(parts[4]), float(parts[5]) >>),
                          rotations |-> Append(acc.rotations,
                              << float(parts[6]), float(parts[7]), float(parts[8]) >>)])
             ELSE acc

\* mutant of displacement_rows: tokens 6, 7, 8 are taken for the translation
\* and tokens 3, 4, 5 for the rotation
RECURSIVE displacement_rows_swapped(_, _)
displacement_rows_swapped(lines, acc) ==
    IF ~(acc.i < Len(lines)) THEN acc
    ELSE LET line == lines[acc.i + 1]
             stripped == strip(line)
             parts == split(stripped)
         IN  IF _is_page_break(line) \/ _is_double_space(line) THEN acc
             ELSE IF stripped = ""
             THEN displacement_rows_swapped(lines, [acc EXCEPT !.i = @ + 1])
             ELSE IF Len(parts) >= 8 /\ int_ok(parts[1]) /\ floats_ok(parts, 2..7)
             THEN displacement_rows_swapped(lines,
                    [i |-> acc.i + 1,
                     node_ids |-> Append(acc.node_ids, int(parts[1])),
                     translations |-> Append(acc.translations,
                         << float(parts[6]), float(parts[7]), float(parts[8]) >>),
                     rotations |-> Append(acc.rotations,
                         << float(parts[3]), float(parts[4]), float(parts[5]) >>)])
             ELSE acc

\* the row-accumulation loop of parse_displacements; acc holds i and the lists
RECURSIVE displacement_rows(_, _)
displacement_rows(lines, acc) ==
    IF ~(acc.i < Len(lines)) THEN acc
    ELSE LET line == lines[acc.i + 1]
             stripped == strip(line)
             parts == split(stripped)
         IN  IF _is_page_break(line) \/ _is_double_space(line) THEN acc
             ELSE IF stripped = ""
             THEN displacement_rows(lines, [acc EXCEPT !.i = @ + 1])
             ELSE IF Len(parts) >= 8
             THEN IF int_ok(parts[1]) /\ floats_ok(parts, 2..7)
                  THEN displacement_rows(lines,
                         [i |-> acc.i + 1,
                          node_ids |-> Append(acc.node_ids, int(parts[1])),
                          translations |-> Append(acc.translations,
                              << float(parts[3]), float(parts[4]), float(parts[5]) >>),
                          rotations |-> Append(acc.rotations,
                              << float(parts[6]), float(parts[7]), float(parts[8]) >>)])
                  ELSE acc
             ELSE acc

DisplacementResult(node_ids, translations, rotations, subcase) ==
    [node_ids |-> node_ids, translations |-> translations,
     rotations |-> rotations, subcase |-> subcase]

RECURSIVE displacement_scan(_, _, _, _)

\* the end of a table, lines 83-91: t holds i and the lists of its row loop
displacement_table(lines, t, results, subcase) ==
    IF t.node_ids # << >> /\ array_raises(t.node_ids)
    THEN Raise("OverflowError")
    ELSE displacement_scan(lines, t.i,
            IF t.node_ids # << >>
            THEN Append(results,
                   DisplacementResult(int32_array(t.node_ids),
                                      float64_array(t.translations),
                                      float64_array(t.rotations), subcase))
            ELSE results,
            subcase)

displacement_scan(lines, i, results, subcase) ==
    IF ~(i < Len(lines)) THEN results
    ELSE IF In("D I S P L A C E M E N T   V E C T O R", lines[i + 1])
    THEN displacement_table(lines,
            displacement_rows(lines,
                [i |-> skip_to(lines, i + 1, "POINT ID.") + 1,
                 node_ids |-> << >>, translations |-> << >>, rotations |-> << >>]),
            results, subcase)
    ELSE displacement_scan(lines, i + 1, results, subcase)

parse_displacements(output, subcase) ==
    displacement_scan(splitlines(output), 0, << >>, subcase)

\* mutant of eigenvalue_rows: a line of fewer than 7 tokens ends the table
RECURSIVE eigenvalue_rows_strict(_, _)
eigenvalue_rows_strict(lines, acc) ==
    IF ~(acc.i < Len(lines)) THEN acc
    ELSE LET line == lines[acc.i + 1]
             stripped == strip(line)
             parts == split(stripped)
             next == [acc EXCEPT !.i = @ + 1]
         IN  IF _is_page_break(line) THEN acc
             ELSE IF stripped = "" THEN eigenvalue_rows_strict(lines, next)
             ELSE IF \/ StartsWith(stripped, "*")
                     \/ StartsWith(stripped, "+")
                     \/ In("MESSAGE", stripped)
             THEN eigenvalue_rows_strict(lines, next)
             ELSE IF Len(parts) < 7 THEN acc
             ELSE IF /\ int_ok(parts[1]) /\ int_ok(parts[2])
                     /\ floats_ok(parts, {2, 4, 5, 6})
             THEN eigenvalue_rows_strict(lines,
                    [i |-> acc.i + 1,
                     mode_numbers |-> Append(acc.mode_numbers, int(parts[1])),
                     eigenvalues |-> Append(acc.eigenvalues, float(parts[3])),
                     frequencies |-> Append(acc.frequencies, float(parts[5])),
                     gen_mass |-> Append(acc.gen_mass, float(parts[6])),
                     gen_stiff |-> Append(acc.gen_stiff, float(parts[7]))])
             ELSE eigenvalue_rows_strict(lines, next)

\* mutant of eigenvalue_rows: token 4 is taken for the frequency
RECURSIVE eigenvalue_rows_radians(_, _)
eigenvalue_rows_radians(lines, acc) ==
    IF ~(acc.i < Len(lines)) THEN acc
    ELSE LET line == lines[acc.i + 1]
             stripped == strip(line)
             parts == split(stripped)
             next == [acc EXCEPT !.i = @ + 1]
         IN  IF _is_page_break(line) THEN acc
             ELSE IF stripped = "" THEN eigenvalue_rows_radians(lines, next)
             ELSE IF \/ StartsWith(stripped, "*")
                     \/ StartsWith(stripped, "+")
                     \/ In("MESSAGE", stripped)
             THEN eigenvalue_rows_radians(lines, next)
             ELSE IF /\ Len(parts) >= 7 /\ int_ok(parts[1]) /\ int_ok(parts[2])
                     /\ floats_ok(parts, {2, 3, 5, 6})
             THEN eigenvalue_rows_radians(lines,
                    [i |-> acc.i + 1,
                     mode_numbers |-> Append(acc.mode_numbers, int(parts[1])),
                     eigenvalues |-> Append(acc.eigenvalues, float(parts[3])),
                     frequencies |-> Append(acc.frequencies, float(parts[4])),
                     gen_mass |-> Append(acc.gen_mass, float(parts[6])),
                     gen_stiff |-> Append(acc.gen_stiff, float(parts[7]))])
             ELSE eigenvalue_rows_radians(lines, next)

\* the row-accumulation loop of parse_eigenvalues
RECURSIVE eigenvalue_rows(_, _)
eigenvalue_rows(lines, acc) ==
    IF ~(acc.i < Len(lines)) THEN acc
    ELSE LET line == lines[acc.i + 1]
             stripped == strip(line)
             parts == split(stripped)
             next == [acc EXCEPT !.i = @ + 1]
         IN  IF _is_page_break(line) THEN acc
             ELSE IF stripped = "" THEN eigenvalue_rows(lines, next)
             ELSE IF \/ StartsWith(stripped, "*")
                     \/ StartsWith(stripped, "+")
                     \/ In("MESSAGE", stripped)
             THEN eigenvalue_rows(lines, next)
             ELSE IF Len(parts) >= 7
             THEN IF /\ int_ok(parts[1]) /\ int_ok(parts[2])
                     /\ floats_ok(parts, {2, 4, 5, 6})
                  THEN eigenvalue_rows(lines,
                         [i |-> acc.i + 1,
                          mode_numbers |-> Append(acc.mode_numbers, int(parts[1])),
                          eigenvalues |-> Append(acc.eigenvalues, float(parts[3])),
                          frequencies |-> Append(acc.frequencies, float(parts[5])),
                          gen_mass |-> Append(acc.gen_mass, float(parts[6])),
                          gen_stiff |-> Append(acc.gen_stiff, float(parts[7]))])
                  ELSE eigenvalue_rows(lines, next)
             ELSE eigenvalue_rows(lines, next)

EigenvalueResult(mode_numbers, eigenvalues, frequencies, gen_mass, gen_stiff) ==
    [mode_numbers |-> mode_numbers, eigenvalues |-> eigenvalues,
     frequencies |-> frequencies, generalized_mass |-> gen_mass,
     generalized_stiffness |-> gen_stiff]

\* the outer loop of parse_eigenvalues: the lists at its exit
RECURSIVE eigenvalue_scan(_, _)
eigenvalue_scan(lines, i) ==
    LET empty == [i |-> i, mode_numbers |-> << >>, eigenvalues |-> << >>,
                  frequencies |-> << >>, gen_mass |-> << >>, gen_stiff |-> << >>]
    IN  IF ~(i < Len(lines)) THEN empty
        ELSE IF In("R E A L   E I G E N V A L U E S", lines[i + 1])
        THEN LET m == skip_to(lines, i + 1, "MODE")
             IN  IF m >= Len(lines) THEN empty
                 ELSE eigenvalue_rows(lines,
                        [empty EXCEPT !.i = skip_if(lines, m + 1, "NO.")])
        ELSE eigenvalue_scan(lines, i + 1)

\* mutant of eigenvalue_result: a result is built of empty lists too
eigenvalue_result_of_empty(t) ==
    IF array_raises(t.mode_numbers) THEN Raise("OverflowError")
    ELSE Some(EigenvalueResult(int32_array(t.mode_numbers),
                               float64_array(t.eigenvalues),
                               float64_array(t.frequencies),
                               float64_array(t.gen_mass),
                               float64_array(t.gen_stiff)))

\* lines 159-168: t holds the lists at the exit of the outer loop
eigenvalue_result(t) ==
    IF t.mode_numbers = << >> THEN None
    ELSE IF array_raises(t.mode_numbers) THEN Raise("OverflowError")
    ELSE Some(EigenvalueResult(int32_array(t.mode_numbers),
                               float64_array(t.eigenvalues),
                               float64_array(t.frequencies),
                               float64_array(t.gen_mass),
                               float64_array(t.gen_stiff)))

parse_eigenvalues(output) == eigenvalue_result(eigenvalue_scan(splitlines(output), 0))

StressResult(element_ids, element_type, stresses, subcase) ==
    [element_ids |-> element_ids, element_type |-> element_type,
     stresses |-> stresses, subcase |-> subcase]

\* the row-accumulation loop of parse_rod_stresses
RECURSIVE rod_rows(_, _)
rod_rows(lines, acc) ==
    IF ~(acc.i < Len(lines)) THEN acc
    ELSE LET line == lines[acc.i + 1]
             stripped == strip(line)
             parts == split(stripped)
         IN  IF _is_page_break(line) \/ _is_double_space(line) THEN acc
             ELSE IF stripped = "" THEN rod_rows(lines, [acc EXCEPT !.i = @ + 1])
             ELSE IF Len(parts) >= 4
             THEN IF int_ok(parts[1]) /\ floats_ok(parts, {1, 3})
                  THEN rod_rows(lines,
                         [i |-> acc.i + 1,
                          elem_ids |-> Append(acc.elem_ids, int(parts[1])),
                          axial |-> Append(acc.axial, float(parts[2])),
                          torsion |-> Append(acc.torsion,
                              IF Len(parts) > 3 THEN float(parts[4])
                              ELSE float("0.0"))])
                  ELSE acc
             ELSE acc

\* mutant of rod_scan: the header of any stress table starts a rod table
RECURSIVE rod_scan_any_stress(_, _, _, _)
rod_table_any_stress(lines, t, results, subcase) ==
    IF t.elem_ids # << >> /\ array_raises(t.elem_ids)
    THEN Raise("OverflowError")
    ELSE rod_scan_any_stress(lines, t.i + 1,
            IF t.elem_ids # << >>
            THEN Append(results,
                   StressResult(int32_array(t.elem_ids), "CROD",
                       [axial |-> float64_array(t.axial),
                        torsion |-> float64_array(t.torsion)], subcase))
            ELSE results,
            subcase)

rod_scan_any_stress(lines, i, results, subcase) ==
    IF ~(i < Len(lines)) THEN results
    ELSE IF In("S T R E S S E S   I N", lines[i + 1])
    THEN rod_table_any_stress(lines,
            rod_rows(lines,
                [i |-> skip_if(lines, skip_to(lines, i + 1, "ELEMENT") + 1, "ID."),
                 elem_ids |-> << >>, axial |-> << >>, torsion |-> << >>]),
            results, subcase)
    ELSE rod_scan_any_stress(lines, i + 1, results, subcase)

RECURSIVE rod_scan(_, _, _, _)
rod_table(lines, t, results, subcase) ==
    IF t.elem_ids # << >> /\ array_raises(t.elem_ids)
    THEN Raise("OverflowError")
    ELSE rod_scan(lines, t.i + 1,
            IF t.elem_ids # << >>
            THEN Append(results,
                   StressResult(int32_array(t.elem_ids), "CROD",
                       [axial |-> float64_array(t.axial),
                        torsion |-> float64_array(t.torsion)], subcase))
            ELSE results,
            subcase)

rod_scan(lines, i, results, subcase) ==
    IF ~(i < Len(lines)) THEN results
    ELSE IF In("S T R E S S E S   I N   R O D", lines[i + 1])
    THEN rod_table(lines,
            rod_rows(lines,
                [i |-> skip_if(lines, skip_to(lines, i + 1, "ELEMENT") + 1, "ID."),
                 elem_ids |-> << >>, axial |-> << >>, torsion |-> << >>]),
            results, subcase)
    ELSE rod_scan(lines, i + 1, results, subcase)

parse_rod_stresses(output, subcase) ==
    rod_scan(splitlines(output), 0, << >>, subcase)


\* mutant of shear_groups: the ID is appended before the shear values convert
RECURSIVE shear_groups_id_first(_, _, _)
shear_groups_id_first(parts, j, acc) ==
    IF ~(j < Len(parts)) THEN acc
    ELSE IF ~int_ok(parts[j + 1]) THEN [acc EXCEPT !.raised = TRUE]
    ELSE LET a == [acc EXCEPT !.elem_ids = Append(@, int(parts[j + 1])),
                              !.parsed_any = TRUE]
         IN  IF j + 2 < Len(parts) /\ float_ok(parts[j + 2]) /\ float_ok(parts[j + 3])
             THEN shear_groups_id_first(parts,
                    IF j + 3 < Len(parts) /\ ~int_ok(parts[j + 4]) THEN j + 4 ELSE j + 3,
                    [a EXCEPT !.max_shear = Append(@, float(parts[j + 2])),
                              !.avg_shear = Append(@, float(parts[j + 3]))])
             ELSE [a EXCEPT !.raised = TRUE]

\* mutant of shear_groups: the token after a group is never stepped over
RECURSIVE shear_groups_no_margin(_, _, _)
shear_groups_no_margin(parts, j, acc) ==
    IF ~(j < Len(parts)) THEN acc
    ELSE IF /\ j + 2 < Len(parts)
            /\ int_ok(parts[j + 1])
            /\ float_ok(parts[j + 2])
            /\ float_ok(parts[j + 3])
    THEN shear_groups_no_margin(parts, j + 3,
            [acc EXCEPT !.elem_ids = Append(@, int(parts[j + 1])),
                        !.max_shear = Append(@, float(parts[j + 2])),
                        !.avg_shear = Append(@, float(parts[j + 3])),
                        !.parsed_any = TRUE])
    ELSE [acc EXCEPT !.raised = TRUE]

\* the loop over the packed groups of one shear-panel line, from token j
RECURSIVE shear_groups(_, _, _)
shear_groups(parts, j, acc) ==
    IF ~(j < Len(parts)) THEN acc
    ELSE IF /\ j + 2 < Len(parts)
            /\ int_ok(parts[j + 1])
            /\ float_ok(parts[j + 2])
            /\ float_ok(parts[j + 3])
    THEN shear_groups(parts,
            IF j + 3 < Len(parts) /\ ~int_ok(parts[j + 4]) THEN j + 4 ELSE j + 3,
            [acc EXCEPT !.elem_ids = Append(@, int(parts[j + 1])),
                        !.max_shear = Append(@, float(parts[j + 2])),
                        !.avg_shear = Append(@, float(parts[j + 3])),
                        !.parsed_any = TRUE])
    ELSE [acc EXCEPT !.raised = TRUE]

\* the row-accumulation loop of parse_shear_stresses
RECURSIVE shear_rows(_, _)
shear_rows(lines, acc) ==
    IF ~(acc.i < Len(lines)) THEN acc
    ELSE LET line == lines[acc.i + 1]
             stripped == strip(line)
             g == shear_groups(split(stripped), 0,
                    [acc EXCEPT !.parsed_any = FALSE, !.raised = FALSE])
         IN  IF _is_page_break(line) \/ _is_double_space(line) THEN acc
             ELSE IF stripped = "" THEN shear_rows(lines, [acc EXCEPT !.i = @ + 1])
             ELSE IF g.raised /\ ~g.parsed_any THEN acc
             ELSE shear_rows(lines, [g EXCEPT !.i = @ + 1])

RECURSIVE shear_scan(_, _, _, _)

\* the end of a table, lines 285-297
shear_table(lines, t, results, subcase) ==
    IF t.elem_ids # << >> /\ array_raises(t.elem_ids)
    THEN Raise("OverflowError")
    ELSE shear_scan(lines, t.i + 1,
            IF t.elem_ids # << >>
            THEN Append(results,
                   StressResult(int32_array(t.elem_ids), "CSHEAR",
                       [max_shear |-> float64_array(t.max_shear),
                        avg_shear |-> float64_array(t.avg_shear)], subcase))
            ELSE results,
            subcase)

shear_scan(lines, i, results, subcase) ==
    IF ~(i < Len(lines)) THEN results
    ELSE IF In("S T R E S S E S   I N   S H E A R   P A N E L S", lines[i + 1])
    THEN shear_table(lines,
            shear_rows(lines,
                [i |-> skip_if(lines, skip_to(lines, i + 1, "ELEMENT") + 1, "ID."),
                 elem_ids |-> << >>, max_shear |-> << >>, avg_shear |-> << >>,
                 parsed_any |-> FALSE, raised |-> FALSE]),
            results, subcase)
    ELSE shear_scan(lines, i + 1, results, subcase)

parse_shear_stresses(output, subcase) ==
    shear_scan(splitlines(output), 0, << >>, subcase)

\* the row-accumulation loop of parse_membrane_stresses
RECURSIVE membrane_rows(_, _)
membrane_rows(lines, acc) ==
    IF ~(acc.i < Len(lines)) THEN acc
    ELSE LET line == lines[acc.i + 1]
             stripped == strip(line)
             parts == split(stripped)
         IN  IF _is_page_break(line) \/ _is_double_space(line) THEN acc
             ELSE IF stripped = ""
             THEN membrane_rows(lines, [acc EXCEPT !.i = @ + 1])
             ELSE IF Len(parts) >= 8
             THEN IF int_ok(parts[1]) /\ floats_ok(parts, {1, 2, 3, 5, 6, 7})
                  THEN membrane_rows(lines,
                         [i |-> acc.i + 1,
                          elem_ids |-> Append(acc.elem_ids, int(parts[1])),
                          normal_x |-> Append(acc.normal_x, float(parts[2])),
                          normal_y |-> Append(acc.normal_y, float(parts[3])),
                          shear_xy |-> Append(acc.shear_xy, float(parts[4])),
                          major |-> Append(acc.major, float(parts[6])),
                          minor |-> Append(acc.minor, float(parts[7])),
                          max_shear_vals |-> Append(acc.max_shear_vals, float(parts[8]))])
                  ELSE acc
             ELSE acc

\* re.search(r"S T R E S S E S   I N   (Q U A D|T R I A N G)", line)
membrane_header(line) ==
    \/ In("S T R E S S E S   I N   Q U A D", line)
    \/ In("S T R E S S E S   I N   T R I A N G", line)

RECURSIVE membrane_scan(_, _, _, _)

\* the end of a table, lines 358-374
membrane_table(lines, etype, t, results, subcase) ==
    IF t.elem_ids # << >> /\ array_raises(t.elem_ids)
    THEN Raise("OverflowError")
    ELSE membrane_scan(lines, t.i + 1,
            IF t.elem_ids # << >>
            THEN Append(results,
                   StressResult(int32_array(t.elem_ids), etype,
                       [normal_x |-> float64_array(t.normal_x),
                        normal_y |-> float64_array(t.normal_y),
                        shear_xy |-> float64_array(t.shear_xy),
                        major |-> float64_array(t.major),
                        minor |-> float64_array(t.minor),
                        max_shear |-> float64_array(t.max_shear_vals)], subcase))
            ELSE results,
            subcase)

\* mutant of membrane_scan: every table is tagged CQDMEM
RECURSIVE membrane_scan_quad(_, _, _, _)
membrane_scan_quad(lines, i, results, subcase) ==
    IF ~(i < Len(lines)) THEN results
    ELSE IF membrane_header(lines[i + 1])
    THEN membrane_table(lines, "CQDMEM",
            membrane_rows(lines,
                [i |-> skip_if(lines, skip_to(lines, i + 1, "ELEMENT") + 1, "ID."),
                 elem_ids |-> << >>, normal_x |-> << >>, normal_y |-> << >>,
                 shear_xy |-> << >>, major |-> << >>, minor |-> << >>,
                 max_shear_vals |-> << >>]),
            results, subcase)
    ELSE membrane_scan_quad(lines, i + 1, results, subcase)

membrane_scan(lines, i, results, subcase) ==
    IF ~(i < Len(lines)) THEN results
    ELSE IF membrane_header(lines[i + 1])
    THEN membrane_table(lines,
            IF In("Q U A D", lines[i + 1]) THEN "CQDMEM" ELSE "CTRMEM",
            membrane_rows(lines,
                [i |-> skip_if(lines, skip_to(lines, i + 1, "ELEMENT") + 1, "ID."),
                 elem_ids |-> << >>, normal_x |-> << >>, normal_y |-> << >>,
                 shear_xy |-> << >>, major |-> << >>, minor |-> << >>,
                 max_shear_vals |-> << >>]),
            results, subcase)
    ELSE membrane_scan(lines, i + 1, results, subcase)

parse_membrane_stresses(output, subcase) ==
    membrane_scan(splitlines(output), 0, << >>, subcase)

(***************************************************************************)
(* parser.py: the loops of the table parsers, one iteration at a time      *)
(***************************************************************************)
ParserFunctions ==
    {"parse_displacements", "parse_eigenvalues", "parse_rod_stresses",
     "parse_shear_stresses", "parse_membrane_stresses"}

\* the test of the outer loop for the header phrase
header_at(fn, line) ==
    CASE fn = "parse_displacements" -> In("D I S P L A C E M E N T   V E C T O R", line)
      [] fn = "parse_eigenvalues" -> In("R E A L   E I G E N V A L U E S", line)
      [] fn = "parse_rod_stresses" -> In("S T R E S S E S   I N   R O D", line)
      [] fn = "parse_shear_stresses" ->
           In("S T R E S S E S   I N   S H E A R   P A N E L S", line)
      [] fn = "parse_membrane_stresses" -> membrane_header(line)

\* mutant of entry_index: the index is left on the header line
entry_index_same(fn, lines, i) == i

\* the index at the entry of the row loop, the header phrase being on line i
entry_index(fn, lines, i) ==
    CASE fn = "parse_displacements" -> skip_to(lines, i + 1, "POINT ID.") + 1
      [] fn = "parse_eigenvalues" ->
           skip_if(lines, skip_to(lines, i + 1, "MODE") + 1, "NO.")
      [] OTHER -> skip_if(lines, skip_to(lines, i + 1, "ELEMENT") + 1, "ID.")

\* the empty lists at the entry of the row loop
rows_entry(fn, i) ==
    CASE fn = "parse_displacements" ->
           [i |-> i, node_ids |-> << >>, translations |-> << >>, rotations |-> << >>]
      [] fn = "parse_eigenvalues" ->
           [i |-> i, mode_numbers |-> << >>, eigenvalues |-> << >>,
            frequencies |-> << >>, gen_mass |-> << >>, gen_stiff |-> << >>]
      [] fn = "parse_rod_stresses" ->
           [i |-> i, elem_ids |-> << >>, axial |-> << >>, torsion |-> << >>]
      [] fn = "parse_shear_stresses" ->
           [i |-> i, elem_ids |-> << >>, max_shear |-> << >>, avg_shear |-> << >>,
            parsed_any |-> FALSE, raised |-> FALSE]
      [] fn = "parse_membrane_stresses" ->
           [i |-> i, elem_ids |-> << >>, normal_x |-> << >>, normal_y |-> << >>,
            shear_xy |-> << >>, major |-> << >>, minor |-> << >>,
            max_shear_vals |-> << >>]

\* the row loop of fn run on `lines` from the state acc
rows_of(fn, lines, acc) ==
    CASE fn = "parse_displacements" -> displacement_rows(lines, acc)
      [] fn = "parse_eigenvalues" -> eigenvalue_rows(lines, acc)
      [] fn = "parse_rod_stresses" -> rod_rows(lines, acc)
      [] fn = "parse_shear_stresses" -> shear_rows(lines, acc)
      [] fn = "parse_membrane_stresses" -> membrane_rows(lines, acc)

\* one iteration of the row loop: the loop run on the lines up to the
\* current one, which leaves the index where it is if the iteration breaks
row_iteration(fn, lines, acc) == rows_of(fn, SubSeq(lines, 1, acc.i + 1), acc)

\* the IDs gathered by the row loop
ids_gathered(fn, acc) ==
    CASE fn = "parse_displacements" -> acc.node_ids
      [] fn = "parse_eigenvalues" -> acc.mode_numbers
      [] OTHER -> acc.elem_ids

\* after the row loop: parse_eigenvalues breaks out of the outer loop, and
\* so does the exception of np.array; parse_displacements goes on at the
\* line that ended the table, the stress parsers at the line after it
after_rows(sc) ==
    IF \/ sc.fn = "parse_eigenvalues"
       \/ /\ ids_gathered(sc.fn, sc.acc) # << >>
          /\ array_raises(ids_gathered(sc.fn, sc.acc))
    THEN [sc EXCEPT !.loop = "done"]
    ELSE [sc EXCEPT !.loop = "outer",
                    !.i = IF sc.fn = "parse_displacements" THEN sc.acc.i
                          ELSE sc.acc.i + 1]

\* the row loop after an iteration that left the state a
after_iteration(sc, a) ==
    IF a.i = sc.acc.i THEN after_rows(sc) ELSE [sc EXCEPT !.acc = a]

\* "END OF JOB" in output or "JOB TERMINATED" in output
\* mutant of is_completed: only the first phrase is looked for
is_completed_first_only(output) == In("END OF JOB", output)

is_completed(output) == In("END OF JOB", output) \/ In("JOB TERMINATED", output)


(***************************************************************************)
(* The world the harness runs in.                                          *)
(***************************************************************************)
\* tempfile.gettempdir()
TMPDIR == "/tmp"

_REPO_ROOT == "/repo"
_DEFAULT_EXECUTABLE == Join(Join(_REPO_ROOT, "build"), "nastrn")
_DEFAULT_RFDIR == Join(_REPO_ROOT, "rf_clean")

\* the directories that exist whatever the installation
BaseDirs == {TMPDIR, "/work", "/decks", _REPO_ROOT, Join(_REPO_ROOT, "build")}

\* an input deck stored in a file
DeckFile == "/decks/d01011a.inp"
DeckText == "ID D01011A\nBEGIN BULK\nENDDATA\n"

\* the same deck stored with DOS line endings, and with the three line
\* endings mixed
DosDeckFile == "/decks/dos.inp"
DosDeckText == "ID D01011A\r\nBEGIN BULK\r\nENDDATA\r\n"
MixedDeckFile == "/decks/mixed.inp"
MixedDeckText == "ID D01011A\r\nBEGIN BULK\rENDDATA\n"

\* a file opened in text mode (newline=None) is read with universal
\* newlines: "\r\n" and a lone "\r" are read as "\n"
RECURSIVE universal_newlines(_)
universal_newlines(s) ==
    LET n == FirstIndexOf(s, "\r")
    IN  IF n > Len(s) THEN s
        ELSE SubSeq(s, 1, n - 1) \o "\n"
               \o universal_newlines(
                     SubSeq(s, IF n < Len(s) /\ Char(s, n + 1) = "\n" THEN n + 2 ELSE n + 1,
                            Len(s)))

\* Path.read_text() of an existing file
\* mutant of read_text: the content of the file as it is stored
read_text_verbatim(fs, path) == fs[path]

read_text(fs, path) == universal_newlines(fs[path])

\* os.path.isfile(p) / Path.exists() for a file
isfile(p) == p \in DOMAIN files

\* Path.is_dir()
is_dir(p) == p \in dirs

\* shutil.rmtree(d, ignore_errors=True): the directories and files left
rmtree_dirs(ds, d) == { x \in ds : x # d /\ ~Below(x, d) }
rmtree_files(fs, d) == [f \in { x \in DOMAIN fs : ~Below(x, d) } |-> fs[f]]

\* Path.write_text(text): the files afterwards
write_text(fs, path, text) == Put(fs, path, text)

\* the names mkdtemp(prefix="nastran_") can draw
TempNames == { "nastran_" \o ToString(k) : k \in 1..NumTempNames }

\* environments the calling process may start with
StaleEnv ==
    ("PATH" :> "/usr/bin") @@ ("RFDIR" :> "/old/rf") @@ ("DBMEM" :> "1")
      @@ ("DIRCTY" :> "/old") @@ ("LOGNM" :> "/old/run.log")
      @@ ("OPTPNM" :> "/old/optp") @@ ("SOF1" :> "/old/sof1")
      @@ ("SOF7" :> "none") @@ ("FTN11" :> "/old/ftn11")
      @@ ("FTN23" :> "stale") @@ ("PLTNM" :> "none")

ParentEnvs ==
    { EmptyMap, ("PATH" :> "/usr/bin") @@ ("HOME" :> "/root"), StaleEnv }

(***************************************************************************)
(* runner.py: NastranRunner._setup_env                                     *)
(***************************************************************************)
\* for i in range(lo, hi): env[f"SOF{i}"] = "none"
RECURSIVE set_sof(_, _, _)
set_sof(env, i, hi) ==
    IF i < hi THEN set_sof(Put(env, "SOF" \o ToString(i), "none"), i + 1, hi)
    ELSE env

\* mutant of set_ftn: the loop stops one unit short
RECURSIVE set_ftn_short(_, _, _, _)
set_ftn_short(env, scratch_dir, i, hi) ==
    IF i < hi - 1
    THEN set_ftn_short(Put(env, "FTN" \o ToString(i),
                           Join(scratch_dir, "ftn" \o ToString(i))),
                       scratch_dir, i + 1, hi)
    ELSE env

\* for i in range(lo, hi): env[f"FTN{i}"] = str(scratch_dir / f"ftn{i}")
RECURSIVE set_ftn(_, _, _, _)
set_ftn(env, scratch_dir, i, hi) ==
    IF i < hi
    THEN set_ftn(Put(env, "FTN" \o ToString(i),
                     Join(scratch_dir, "ftn" \o ToString(i))),
                 scratch_dir, i + 1, hi)
    ELSE env

\* the mapping _setup_env returns; os_environ is os.environ at the call
_setup_env(runner, scratch_dir, os_environ) ==
    LET e0 == os_environ
        e1 == Put(e0, "RFDIR", runner.rfdir)
        e2 == Put(e1, "DBMEM", ToString(runner.dbmem))
        e3 == Put(e2, "OCMEM", ToString(runner.ocmem))
        e4 == Put(e3, "DIRCTY", scratch_dir)
        e5 == Put(e4, "LOGNM", Join(scratch_dir, "run.log"))
        e6 == Put(e5, "NPTPNM", Join(scratch_dir, "run.nptp"))
        e7 == Put(e6, "DICTNM", Join(scratch_dir, "run.dic"))
        e8 == Put(e7, "PLTNM", Join(scratch_dir, "plot.dat"))
        e9 == Put(e8, "PUNCHNM", Join(scratch_dir, "punch.dat"))
        e10 == Put(e9, "OPTPNM", "none")
        e11 == Put(e10, "SOF1", "none")
        e12 == Put(e11, "SOF2", "none")
        e13 == set_sof(e12, 3, 11)
    IN  set_ftn(e13, scratch_dir, 11, 24)

(***************************************************************************)
(* models.py: NastranResult                                                *)
(***************************************************************************)
NastranResult(returncode, output, log, completed, displacements, stresses, eigenvalues, wall_time) ==
    [returncode |-> returncode, output |-> output, log |-> log,
     completed |-> completed, displacements |-> displacements,
     stresses |-> stresses, eigenvalues |-> eigenvalues,
     wall_time |-> wall_time]

\* runner.py: NastranRunner._parse_results
\* the result built of what the parser calls returned
parse_results_of(output, completed, displacements, eigenvalues, rod, shear, membrane) ==
    IF \/ IsRaise(displacements) \/ IsRaise(eigenvalues)
       \/ IsRaise(rod) \/ IsRaise(shear) \/ IsRaise(membrane)
    THEN Raise("OverflowError")
    ELSE Some(NastranResult(0, output, "", completed, displacements,
                            rod \o shear \o membrane, eigenvalues, 0))

\* the result in a one-element sequence, or the exception of the parser
\* call that raised (nothing catches it)
_parse_results(output) ==
    parse_results_of(output, is_completed(output),
                     parse_displacements(output, 1), parse_eigenvalues(output),
                     parse_rod_stresses(output, 1), parse_shear_stresses(output, 1),
                     parse_membrane_stresses(output, 1))

\* the locals of run() after 'result = self._parse_results(output)'
parsed_locals(l, r) ==
    IF IsRaise(r) THEN [l EXCEPT !.exc = "OverflowError"] ELSE [l EXCEPT !.result = r]


(***************************************************************************)
(* runner.py: NastranRunner.__init__                                       *)
(***************************************************************************)
\* Path.exists()
exists(p) == p \in DOMAIN files \/ p \in dirs

\* mutant of init_error: the rigid-format directory is not looked at
init_error_no_rfdir(mode, executable, rfdir) ==
    IF mode = "subprocess" /\ ~exists(executable)
    THEN "FileNotFoundError: NASTRAN executable not found"
    ELSE IF mode = "f2py" /\ ~built
    THEN "RuntimeError: f2py extension not built"
    ELSE IF mode \notin {"subprocess", "f2py"}
    THEN "ValueError: Unknown mode"
    ELSE ""

\* the exception __init__ raises for its arguments ("" when it raises none)
init_error(mode, executable, rfdir) ==
    IF mode = "subprocess" /\ ~exists(executable)
    THEN "FileNotFoundError: NASTRAN executable not found"
    ELSE IF mode = "f2py" /\ ~built
    THEN "RuntimeError: f2py extension not built"
    ELSE IF mode \notin {"subprocess", "f2py"}
    THEN "ValueError: Unknown mode"
    ELSE IF ~is_dir(rfdir)
    THEN "FileNotFoundError: Rigid format directory not found"
    ELSE ""

NoRunner ==
    [state |-> "new", mode |-> "", rfdir |-> "", dbmem |-> 0, ocmem |-> 0,
     scratch_root |-> None, executable |-> None, exc |-> ""]

\* NastranRunner(executable, rfdir, dbmem, ocmem, scratch_root, mode);
\* "" stands for an argument left at None
__init__(executable, rfdir, dbmem, ocmem, scratch_root, mode) ==
    /\ self.state = "new"
    /\ LET rf == IF rfdir # "" THEN rfdir ELSE _DEFAULT_RFDIR
           exe == IF executable # "" THEN executable ELSE _DEFAULT_EXECUTABLE
           err == init_error(mode, exe, rf)
       IN  self' = [state |-> IF err = "" THEN "ok" ELSE "failed",
                    mode |-> mode, rfdir |-> rf, dbmem |-> dbmem,
                    ocmem |-> ocmem,
                    scratch_root |-> IF scratch_root # "" THEN Some(scratch_root)
                                     ELSE None,
                    executable |-> IF mode = "subprocess" THEN Some(exe) ELSE None,
                    exc |-> err]
    /\ UNCHANGED << dirs, files, environ, built, pc, loc, child, clock, hist >>
    /\ UNCHANGED parserVars

(***************************************************************************)
(* runner.py: NastranRunner.run, one call per thread                       *)
(***************************************************************************)
\* no argument yet
NoInput == [type |-> "", value |-> ""]

NoLocals ==
    [input_data |-> NoInput, input_text |-> "", timeout |-> None, cleanup |-> TRUE, scratch_dir |-> "",
     env |-> EmptyMap, old_env |-> EmptyMap, t0 |-> 0, wall_time |-> 0,
     output |-> "", returncode |-> 0, rc |-> 0, log |-> "", result |-> None,
     exc |-> "", retval |-> None]

NoChild ==
    [state |-> "none", stdin |-> "", env |-> EmptyMap, cwd |-> "",
     stdout |-> "", returncode |-> 0, logtext |-> None]

NoHistory ==
    [environ0 |-> EmptyMap, created |-> None, removed |-> {}, overlapped |-> FALSE,
     log_read |-> FALSE, parsed |-> FALSE, engine_called |-> FALSE,
     engine_returned |-> FALSE, log_at_read |-> None, overran |-> FALSE]

\* a call of run() that has begun and not yet returned or raised
Active(t) == pc[t] \notin {"idle", "done"}

SetLoc(t, r) == loc' = [loc EXCEPT ![t] = r]
SetHist(t, r) == hist' = [hist EXCEPT ![t] = r]
Goto(t, label) == pc' = [pc EXCEPT ![t] = label]

\* run(), lines 100-107: the deck text for input_data = [type, value]
reads_file(input_data) ==
    input_data.type = "Path" \/ (input_data.type = "str" /\ isfile(input_data.value))

run_input(t, input_data, timeout, cleanup) ==
    /\ pc[t] = "idle"
    /\ self.state = "ok"
    /\ IF reads_file(input_data) /\ ~isfile(input_data.value)
       THEN /\ SetLoc(t, [loc[t] EXCEPT !.input_data = input_data,
                                        !.timeout = timeout, !.cleanup = cleanup,
                                        !.exc = "FileNotFoundError: deck"])
            /\ Goto(t, "done")
       ELSE /\ SetLoc(t, [loc[t] EXCEPT
                  !.input_data = input_data,
                  !.input_text = IF reads_file(input_data)
                                 THEN read_text(files, input_data.value)
                                 ELSE input_data.value,
                  !.timeout = timeout, !.cleanup = cleanup])
            /\ Goto(t, "mkdtemp")
    /\ hist' = [u \in Threads |->
                  IF u = t
                  THEN [hist[u] EXCEPT !.environ0 = environ,
                                       !.overlapped = \E v \in Threads \ {t} : Active(v)]
                  ELSE IF Active(u) THEN [hist[u] EXCEPT !.overlapped = TRUE]
                  ELSE hist[u]]
    /\ UNCHANGED << dirs, files, environ, built, self, child, clock >>
    /\ UNCHANGED parserVars

\* mutant of mkdtemp_free: an existing directory may be returned
mkdtemp_free_any(ds, d) == TRUE

\* tempfile.mkdtemp may return directory d: no such entry exists yet
mkdtemp_free(ds, d) == d \notin ds

\* run(), lines 109-111
run_mkdtemp(t) ==
    /\ pc[t] = "mkdtemp"
    /\ LET scratch_parent == IF self.scratch_root # None THEN self.scratch_root[1]
                             ELSE TMPDIR
       IN  IF ~is_dir(scratch_parent)
           THEN /\ SetLoc(t, [loc[t] EXCEPT !.exc = "FileNotFoundError: mkdtemp"])
                /\ Goto(t, "done")
                /\ UNCHANGED << dirs, hist >>
           ELSE \E n \in TempNames :
                  LET d == Join(scratch_parent, n)
                  IN  /\ mkdtemp_free(dirs, d)
                      /\ dirs' = dirs \cup {d}
                      /\ SetLoc(t, [loc[t] EXCEPT !.scratch_dir = d])
                      /\ SetHist(t, [hist[t] EXCEPT !.created = Some(d)])
                      /\ Goto(t, IF self.mode = "subprocess" THEN "sp_env"
                                 ELSE "f2_env")
    /\ UNCHANGED << files, environ, built, self, child, clock >>
    /\ UNCHANGED parserVars

\* mutant of finally_dirs: the directory is never removed
finally_dirs_never(ds, d, cleanup) == ds

\* the directories left by the finally clause of run(), line 118-120
finally_dirs(ds, d, cleanup) == IF cleanup THEN rmtree_dirs(ds, d) ELSE ds
finally_files(fs, d, cleanup) == IF cleanup THEN rmtree_files(fs, d) ELSE fs

\* run(), lines 118-120, then the return or the propagation of the exception
run_finally(t) ==
    /\ pc[t] = "finally"
    /\ dirs' = finally_dirs(dirs, loc[t].scratch_dir, loc[t].cleanup)
    /\ files' = finally_files(files, loc[t].scratch_dir, loc[t].cleanup)
    /\ SetHist(t, [hist[t] EXCEPT !.removed = dirs \ dirs'])
    /\ Goto(t, "done")
    /\ UNCHANGED << environ, built, self, loc, child, clock >>
    /\ UNCHANGED parserVars


(***************************************************************************)
(* runner.py: NastranRunner._execute_subprocess                            *)
(***************************************************************************)
Tick == clock' = IF clock < MaxClock THEN clock + 1 ELSE clock

\* lines 169-171
sp_env(t) ==
    /\ pc[t] = "sp_env"
    /\ SetLoc(t, [loc[t] EXCEPT !.env = _setup_env(self, loc[t].scratch_dir, environ),
                                !.t0 = clock])
    /\ Goto(t, "sp_spawn")
    /\ UNCHANGED << dirs, files, environ, built, self, child, clock, hist >>
    /\ UNCHANGED parserVars

\* lines 173-181: subprocess.run starts the child, or raises OSError
sp_spawn(t, started) ==
    /\ pc[t] = "sp_spawn"
    /\ IF started
       THEN /\ child' = [child EXCEPT ![t] =
                   [NoChild EXCEPT !.state = "running", !.stdin = loc[t].input_text,
                                   !.env = loc[t].env, !.cwd = loc[t].scratch_dir]]
            /\ Goto(t, "sp_wait")
            /\ UNCHANGED loc
       ELSE /\ SetLoc(t, [loc[t] EXCEPT !.exc = "OSError: spawn"])
            /\ Goto(t, "finally")
            /\ UNCHANGED child
    /\ UNCHANGED << dirs, files, environ, built, self, clock, hist >>
    /\ UNCHANGED parserVars

\* the engine in the child: prints `out`, and writes its log when log # None
child_work(t, out, log) ==
    /\ child[t].state = "running"
    /\ child[t].stdout = "" /\ child[t].logtext = None
    /\ out # "" \/ log # None
    /\ child' = [child EXCEPT ![t].stdout = out, ![t].logtext = log]
    /\ files' = IF log # None /\ "LOGNM" \in DOMAIN child[t].env
                             /\ is_dir(Dirname(child[t].env["LOGNM"]))
                THEN write_text(files, child[t].env["LOGNM"], log[1])
                ELSE files
    /\ UNCHANGED << dirs, environ, built, self, pc, loc, clock, hist >>
    /\ UNCHANGED parserVars

\* the child exits with code rc
child_exit(t, rc) ==
    /\ child[t].state = "running"
    /\ child' = [child EXCEPT ![t].state = "exited", ![t].returncode = rc]
    /\ Tick
    /\ UNCHANGED << dirs, files, environ, built, self, pc, loc, hist >>
    /\ UNCHANGED parserVars

\* lines 182-184: subprocess.run returns; the captured standard output is
\* decoded in text mode (text=True)
sp_done(t) ==
    /\ pc[t] = "sp_wait"
    /\ child[t].state = "exited"
    /\ SetLoc(t, [loc[t] EXCEPT !.wall_time = clock - loc[t].t0,
                                !.output = universal_newlines(child[t].stdout),
                                !.returncode = child[t].returncode])
    /\ Goto(t, "sp_log")
    /\ UNCHANGED << dirs, files, environ, built, self, child, clock, hist >>
    /\ UNCHANGED parserVars

\* mutant of timeout_result: the timeout is reported as a success
timeout_result_zero(wall_time) ==
    NastranResult(0, "", "", FALSE, << >>, << >>, None, wall_time)

\* the result of the except clause, lines 187-193
timeout_result(wall_time) ==
    NastranResult(-1, "", "", FALSE, << >>, << >>, None, wall_time)

\* mutant of sp_timeout: TimeoutExpired is not caught
sp_timeout_uncaught(t) ==
    /\ pc[t] = "sp_wait"
    /\ child[t].state = "running"
    /\ loc[t].timeout # None
    /\ child' = [child EXCEPT ![t].state = "killed"]
    /\ Tick
    /\ SetLoc(t, [loc[t] EXCEPT !.exc = "TimeoutExpired"])
    /\ Goto(t, "finally")
    /\ UNCHANGED << dirs, files, environ, built, self, hist >>
    /\ UNCHANGED parserVars

\* lines 185-193: the timeout expires, subprocess.run kills the child and
\* raises TimeoutExpired
sp_timeout(t) ==
    /\ pc[t] = "sp_wait"
    /\ child[t].state = "running"
    /\ loc[t].timeout # None
    /\ child' = [child EXCEPT ![t].state = "killed"]
    /\ Tick
    /\ SetLoc(t, [loc[t] EXCEPT !.wall_time = clock' - loc[t].t0,
                                !.retval = Some(timeout_result(clock' - loc[t].t0))])
    /\ Goto(t, "finally")
    /\ UNCHANGED << dirs, files, environ, built, self, hist >>
    /\ UNCHANGED parserVars

\* mutant of read_text_or_empty: the file is never read
read_text_or_empty_never(fs, path) == ""

\* path.read_text() if path.exists() else ""
read_text_or_empty(fs, path) == IF path \in DOMAIN fs THEN read_text(fs, path) ELSE ""

\* lines 195-197
sp_log(t) ==
    /\ pc[t] = "sp_log"
    /\ LET log_path == Join(loc[t].scratch_dir, "run.log")
       IN  /\ SetLoc(t, [loc[t] EXCEPT !.log = read_text_or_empty(files, log_path)])
           /\ SetHist(t, [hist[t] EXCEPT !.log_read = TRUE,
                                         !.log_at_read = Get(files, log_path)])
    /\ Goto(t, "sp_parse")
    /\ UNCHANGED << dirs, files, environ, built, self, child, clock >>
    /\ UNCHANGED parserVars

\* line 199
sp_parse(t) ==
    /\ pc[t] = "sp_parse"
    /\ SetHist(t, [hist[t] EXCEPT !.parsed = TRUE])
    /\ SetLoc(t, parsed_locals(loc[t], _parse_results(loc[t].output)))
    /\ Goto(t, IF loc'[t].exc = "" THEN "sp_fields" ELSE "finally")
    /\ UNCHANGED << dirs, files, environ, built, self, child, clock >>
    /\ UNCHANGED parserVars

\* mutant of set_fields: the exit code is not stored
set_fields_no_returncode(result, returncode, log, wall_time) ==
    [result EXCEPT !.log = log, !.wall_time = wall_time]

\* mutant of set_fields: the completion flag is set from the exit code
set_fields_and_completed(result, returncode, log, wall_time) ==
    [result EXCEPT !.returncode = returncode, !.log = log, !.wall_time = wall_time,
                   !.completed = (returncode = 0)]

\* result.returncode = ...; result.log = ...; result.wall_time = ...
set_fields(result, returncode, log, wall_time) ==
    [result EXCEPT !.returncode = returncode, !.log = log, !.wall_time = wall_time]

\* lines 200-203
sp_fields(t) ==
    /\ pc[t] = "sp_fields"
    /\ LET r == set_fields(loc[t].result[1], loc[t].returncode, loc[t].log,
                           loc[t].wall_time)
       IN  SetLoc(t, [loc[t] EXCEPT !.result = Some(r), !.retval = Some(r)])
    /\ Goto(t, "finally")
    /\ UNCHANGED << dirs, files, environ, built, self, child, clock, hist >>
    /\ UNCHANGED parserVars


(***************************************************************************)
(* runner.py: NastranRunner._execute_f2py                                  *)
(***************************************************************************)
\* lines 216-219: old_env after the loop
saved_env(env, os_environ) == [k \in DOMAIN env |-> Get(os_environ, k)]

\* mutant of applied_env: the loop sets nothing
applied_env_not(env, os_environ) == os_environ

\* lines 216-219: os.environ after the loop
applied_env(env, os_environ) ==
    [k \in (DOMAIN os_environ) \cup (DOMAIN env) |->
        IF k \in DOMAIN env THEN env[k] ELSE os_environ[k]]

\* mutant of restored_env: the finally clause restores nothing
restored_env_never(old_env, os_environ) == os_environ

\* lines 234-238: os.environ after the loop
restored_env(old_env, os_environ) ==
    [k \in ((DOMAIN os_environ) \ { n \in DOMAIN old_env : old_env[n] = None })
           \cup { n \in DOMAIN old_env : old_env[n] # None } |->
        IF k \in DOMAIN old_env THEN old_env[k][1] ELSE os_environ[k]]

\* lines 212-219
f2_env(t) ==
    /\ pc[t] = "f2_env"
    /\ LET env == _setup_env(self, loc[t].scratch_dir, environ)
       IN  /\ SetLoc(t, [loc[t] EXCEPT !.env = env,
                                       !.old_env = saved_env(env, environ)])
           /\ environ' = applied_env(env, environ)
    /\ Goto(t, "f2_write")
    /\ UNCHANGED << dirs, files, built, self, child, clock, hist >>
    /\ UNCHANGED parserVars

\* lines 221-225: input_file.write_text(input_text) succeeds, or raises OSError
f2_write(t, written) ==
    /\ pc[t] = "f2_write"
    /\ IF written /\ is_dir(loc[t].scratch_dir)
       THEN /\ files' = write_text(files, Join(loc[t].scratch_dir, "input.dat"),
                                   loc[t].input_text)
            /\ Goto(t, "f2_core")
            /\ UNCHANGED loc
       ELSE /\ SetLoc(t, [loc[t] EXCEPT !.exc = "OSError: write_text"])
            /\ Goto(t, "finally")
            /\ UNCHANGED files
    /\ UNCHANGED << dirs, environ, built, self, child, clock, hist >>
    /\ UNCHANGED parserVars

\* lines 227-229: get_core() imports the extension, or raises ImportError
f2_core(t, imported) ==
    /\ pc[t] = "f2_core"
    /\ IF imported
       THEN /\ SetLoc(t, [loc[t] EXCEPT !.t0 = clock])
            /\ Goto(t, "f2_solve")
       ELSE /\ SetLoc(t, [loc[t] EXCEPT !.t0 = clock, !.exc = "ImportError"])
            /\ Goto(t, "f2_restore")
    /\ UNCHANGED << dirs, files, environ, built, self, child, clock, hist >>
    /\ UNCHANGED parserVars

\* lines 230-231: core.nastran_solve(input_file, output_file).  The engine
\* reads its configuration from os.environ; it writes the print file when
\* out # None and its log when log # None, and returns rc or raises; `late`
\* tells that the call lasted longer than the timeout given to run().
f2_solve(t, out, log, rc, raises, late) ==
    /\ pc[t] = "f2_solve"
    /\ LET output_file == Join(loc[t].scratch_dir, "output.out")
           f1 == IF out # None /\ is_dir(loc[t].scratch_dir)
                 THEN write_text(files, output_file, out[1]) ELSE files
           f2 == IF log # None /\ "LOGNM" \in DOMAIN environ
                               /\ is_dir(Dirname(environ["LOGNM"]))
                 THEN write_text(f1, environ["LOGNM"], log[1]) ELSE f1
       IN  files' = f2
    /\ Tick
    /\ IF raises
       THEN SetLoc(t, [loc[t] EXCEPT !.exc = "EngineError"])
       ELSE SetLoc(t, [loc[t] EXCEPT !.rc = rc, !.wall_time = clock' - loc[t].t0])
    /\ SetHist(t, [hist[t] EXCEPT !.engine_called = TRUE,
                                  !.engine_returned = ~raises,
                                  !.overran = late /\ loc[t].timeout # None])
    /\ Goto(t, "f2_restore")
    /\ UNCHANGED << dirs, environ, built, self, child >>
    /\ UNCHANGED parserVars

\* lines 232-238: the finally clause
f2_restore(t) ==
    /\ pc[t] = "f2_restore"
    /\ environ' = restored_env(loc[t].old_env, environ)
    /\ Goto(t, IF loc[t].exc # "" THEN "finally" ELSE "f2_read")
    /\ UNCHANGED << dirs, files, built, self, loc, child, clock, hist >>
    /\ UNCHANGED parserVars

\* lines 240-243
f2_read(t) ==
    /\ pc[t] = "f2_read"
    /\ LET output_file == Join(loc[t].scratch_dir, "output.out")
           log_path == Join(loc[t].scratch_dir, "run.log")
       IN  /\ SetLoc(t, [loc[t] EXCEPT !.output = read_text_or_empty(files, output_file),
                                       !.log = read_text_or_empty(files, log_path)])
           /\ SetHist(t, [hist[t] EXCEPT !.log_read = TRUE,
                                         !.log_at_read = Get(files, log_path)])
    /\ Goto(t, "f2_parse")
    /\ UNCHANGED << dirs, files, environ, built, self, child, clock >>
    /\ UNCHANGED parserVars

\* line 245
f2_parse(t) ==
    /\ pc[t] = "f2_parse"
    /\ SetHist(t, [hist[t] EXCEPT !.parsed = TRUE])
    /\ SetLoc(t, parsed_locals(loc[t], _parse_results(loc[t].output)))
    /\ Goto(t, IF loc'[t].exc = "" THEN "f2_fields" ELSE "finally")
    /\ UNCHANGED << dirs, files, environ, built, self, child, clock >>
    /\ UNCHANGED parserVars

\* lines 246-249
f2_fields(t) ==
    /\ pc[t] = "f2_fields"
    /\ LET r == set_fields(loc[t].result[1], loc[t].rc, loc[t].log, loc[t].wall_time)
       IN  SetLoc(t, [loc[t] EXCEPT !.result = Some(r), !.retval = Some(r)])
    /\ Goto(t, "finally")
    /\ UNCHANGED << dirs, files, environ, built, self, child, clock, hist >>
    /\ UNCHANGED parserVars


(***************************************************************************)
(* Inputs of the model.                                                    *)
(***************************************************************************)
\* print streams of the engine
DocStatic ==
    "1   D I S P L A C E M E N T   V E C T O R\n"
    \o "0     POINT ID.   TYPE   T1   T2   T3   R1   R2   R3\n"
    \o "     11   G   0.0   6.326195E-04   3.889221E-02   0.0   0.0   0.0\n"
    \o "     16   G   0.0   0.0   -4.237940E-01   0.0   0.0   0.0\n"
    \o "1   * * * END OF JOB * * *\n"

DocModes ==
    "1   R E A L   E I G E N V A L U E S\n"
    \o "   MODE   EXTRACTION   EIGENVALUE   RADIAN   CYCLIC   GENERALIZED   GENERALIZED\n"
    \o "    NO.   ORDER   FREQUENCY   FREQUENCY   MASS   STIFFNESS\n"
    \o "     1   1   3.237408E+01   5.689822E+00   9.055634E-01   1.0   3.237408E+01\n"
    \o "1   S T R E S S E S   I N   R O D   E L E M E N T S\n"
    \o "   ELEMENT   AXIAL   SAFETY   TORSIONAL\n"
    \o "     ID.   STRESS   MARGIN   STRESS\n"
    \o "     7   1.5E+02   2.0E-01   0.0\n"

DocFatal == "0*** USER FATAL MESSAGE 1\n JOB TERMINATED\n"

Outputs == {DocStatic, DocModes, DocFatal}
LogTexts == {"NASTRAN LOG A\n", "NASTRAN LOG B\n"}
Logs == {None} \cup { Some(l) : l \in LogTexts }
ExitCodes == (-1)..MaxRc

InputData ==
    { [type |-> "Path", value |-> DeckFile],
      [type |-> "Path", value |-> "/decks/missing.inp"],
      [type |-> "str", value |-> DeckFile],
      [type |-> "str", value |-> DeckText],
      [type |-> "Path", value |-> DosDeckFile],
      [type |-> "str", value |-> DosDeckFile],
      [type |-> "str", value |-> DosDeckText],
      [type |-> "Path", value |-> MixedDeckFile],
      [type |-> "str", value |-> "/decks"],
      [type |-> "str", value |-> "/decks/missing.inp"] }

\* the deck given as the path of a file that exists, or of one that does not
PathInputs == { d \in InputData : d.type = "Path" /\ d.value \notin {DosDeckFile, MixedDeckFile} }

Timeouts == {None, Some(300)}
Modes == {"subprocess", "f2py", "thread"}
ScratchRoots == {"", "/work", "/nope"}

\* the rfdir, dbmem and ocmem arguments of the constructor: the defaults, or
\* the caller's own
RunnerArgs ==
    { [rfdir |-> "", dbmem |-> 12000000, ocmem |-> 2000000],
      [rfdir |-> "/work", dbmem |-> 500000, ocmem |-> 1000] }

(***************************************************************************)
(* Initial states.                                                         *)
(***************************************************************************)
InitRuns ==
    /\ pc = [t \in Threads |-> "idle"]
    /\ loc = [t \in Threads |-> NoLocals]
    /\ child = [t \in Threads |-> NoChild]
    /\ hist = [t \in Threads |-> NoHistory]
    /\ clock = 0

\* no parser function is being followed
NoScan == [fn |-> "", loop |-> "idle", i |-> 0, acc |-> [i |-> 0]]

InitParser ==
    /\ document = ""
    /\ layout = << >>
    /\ numpy2 = TRUE
    /\ answer = None
    /\ scan = NoScan

\* before the runner is constructed, in any installation
Init ==
    /\ \E rf \in BOOLEAN : dirs = BaseDirs \cup (IF rf THEN {_DEFAULT_RFDIR} ELSE {})
    /\ \E exe \in BOOLEAN :
         files = IF exe THEN (DeckFile :> DeckText) @@ (_DEFAULT_EXECUTABLE :> "ELF")
                 ELSE (DeckFile :> DeckText)
    /\ built \in BOOLEAN
    /\ environ \in ParentEnvs
    /\ self = NoRunner
    /\ InitRuns
    /\ InitParser

\* one caller: construction, then one call of run() in either mode
Next ==
    \/ \E a \in RunnerArgs, sr \in ScratchRoots, m \in Modes :
         __init__("", a.rfdir, a.dbmem, a.ocmem, sr, m)
    \/ \E d \in PathInputs, to \in Timeouts, c \in BOOLEAN : run_input(1, d, to, c)
    \/ run_mkdtemp(1)
    \/ sp_env(1)
    \/ \E ok \in BOOLEAN : sp_spawn(1, ok)
    \/ \E out \in Outputs, log \in Logs : child_work(1, out, log)
    \/ \E rc \in ExitCodes : child_exit(1, rc)
    \/ sp_done(1)
    \/ sp_timeout(1)
    \/ sp_log(1)
    \/ sp_parse(1)
    \/ sp_fields(1)
    \/ f2_env(1)
    \/ \E ok \in BOOLEAN : f2_write(1, ok)
    \/ \E ok \in BOOLEAN : f2_core(1, ok)
    \/ \E out \in {None} \cup { Some(o) : o \in Outputs }, log \in Logs,
          rc \in ExitCodes :
         f2_solve(1, out, log, rc, FALSE, FALSE)
    \/ \E out \in {None, Some(DocStatic)}, log \in Logs :
         f2_solve(1, out, log, 0, TRUE, FALSE)
    \/ f2_restore(1)
    \/ f2_read(1)
    \/ f2_parse(1)
    \/ f2_fields(1)
    \/ run_finally(1)

Spec == Init /\ [][Next]_vars


(***************************************************************************)
(* Concurrent callers: every thread calls run() once on one subprocess     *)
(* runner, the calls interleaving freely.                                  *)
(***************************************************************************)
\* what the child of thread t prints and logs: different for every child
OutputOf(t) == IF t % 2 = 1 THEN DocStatic ELSE DocFatal
LogOf(t) == "NASTRAN LOG " \o ToString(t) \o "\n"

InitConc ==
    /\ dirs = BaseDirs \cup {_DEFAULT_RFDIR}
    /\ files = (DeckFile :> DeckText) @@ (_DEFAULT_EXECUTABLE :> "ELF")
    /\ built = FALSE
    /\ environ = StaleEnv
    /\ self = [state |-> "ok", mode |-> "subprocess", rfdir |-> _DEFAULT_RFDIR,
               dbmem |-> 12000000, ocmem |-> 2000000, scratch_root |-> None,
               executable |-> Some(_DEFAULT_EXECUTABLE), exc |-> ""]
    /\ InitRuns
    /\ InitParser

NextConc ==
    \/ \E t \in Threads, c \in BOOLEAN :
         run_input(t, [type |-> "str", value |-> DeckText], Some(300), c)
    \/ \E t \in Threads : run_mkdtemp(t)
    \/ \E t \in Threads : sp_env(t)
    \/ \E t \in Threads : sp_spawn(t, TRUE)
    \/ \E t \in Threads : \E log \in {None, Some(LogOf(t))} :
         child_work(t, OutputOf(t), log)
    \/ \E t \in Threads, rc \in 0..MaxRc : child_exit(t, rc)
    \/ \E t \in Threads : sp_done(t)
    \/ \E t \in Threads : sp_timeout(t)
    \/ \E t \in Threads : sp_log(t)
    \/ \E t \in Threads : sp_parse(t)
    \/ \E t \in Threads : sp_fields(t)
    \/ \E t \in Threads : run_finally(t)

SpecConc == InitConc /\ [][NextConc]_vars


(***************************************************************************)
(* One run of a constructed runner, in either mode, on every form of deck  *)
(* input; the engine prints two displacement tables, one per subcase, and  *)
(* an in-process engine call may outlast the timeout.                      *)
(***************************************************************************)
DocSubcases ==
    "1   D I S P L A C E M E N T   V E C T O R\n"
    \o "0     POINT ID.   TYPE   T1   T2   T3   R1   R2   R3\n"
    \o "     11   G   0.0   6.326195E-04   3.889221E-02   0.0   0.0   0.0\n"
    \o "1   D I S P L A C E M E N T   V E C T O R\n"
    \o "0     POINT ID.   TYPE   T1   T2   T3   R1   R2   R3\n"
    \o "     11   G   0.0   -6.326195E-04   -3.889221E-02   0.0   0.0   0.0\n"
    \o "1   * * * END OF JOB * * *\n"

DeckFiles ==
    (DeckFile :> DeckText) @@ (DosDeckFile :> DosDeckText)
      @@ (MixedDeckFile :> MixedDeckText)

\* the runner NastranRunner(mode=m) constructs in a complete installation
BuiltRunner(m) ==
    [state |-> "ok", mode |-> m, rfdir |-> _DEFAULT_RFDIR,
     dbmem |-> 12000000, ocmem |-> 2000000, scratch_root |-> None,
     executable |-> IF m = "subprocess" THEN Some(_DEFAULT_EXECUTABLE) ELSE None,
     exc |-> ""]

InitDeck ==
    /\ dirs = BaseDirs \cup {_DEFAULT_RFDIR}
    /\ files = DeckFiles @@ (_DEFAULT_EXECUTABLE :> "ELF")
    /\ built = TRUE
    /\ environ = StaleEnv
    /\ self \in { BuiltRunner(m) : m \in {"subprocess", "f2py"} }
    /\ InitRuns
    /\ InitParser

NextDeck ==
    \/ \E d \in InputData, to \in Timeouts : run_input(1, d, to, TRUE)
    \/ run_mkdtemp(1)
    \/ sp_env(1)
    \/ sp_spawn(1, TRUE)
    \/ \E out \in {DocStatic, DocSubcases} : child_work(1, out, None)
    \/ child_exit(1, 0)
    \/ sp_done(1)
    \/ sp_timeout(1)
    \/ sp_log(1)
    \/ sp_parse(1)
    \/ sp_fields(1)
    \/ f2_env(1)
    \/ f2_write(1, TRUE)
    \/ f2_core(1, TRUE)
    \/ \E out \in {DocStatic, DocSubcases}, late \in BOOLEAN :
         f2_solve(1, Some(out), None, 0, FALSE, late)
    \/ f2_restore(1)
    \/ f2_read(1)
    \/ f2_parse(1)
    \/ f2_fields(1)
    \/ run_finally(1)

SpecDeck == InitDeck /\ [][NextDeck]_vars


(***************************************************************************)
(* Two threads of one process call run() on an in-process runner; the      *)
(* calls may follow each other or overlap at any step.                     *)
(***************************************************************************)
InitConcF2 ==
    /\ dirs = BaseDirs \cup {_DEFAULT_RFDIR}
    /\ files = (DeckFile :> DeckText)
    /\ built = TRUE
    /\ environ = StaleEnv
    /\ self = BuiltRunner("f2py")
    /\ InitRuns
    /\ InitParser

NextConcF2 ==
    \/ \E t \in Threads :
         run_input(t, [type |-> "str", value |-> DeckText], None, TRUE)
    \/ \E t \in Threads : run_mkdtemp(t)
    \/ \E t \in Threads : f2_env(t)
    \/ \E t \in Threads : f2_write(t, TRUE)
    \/ \E t \in Threads : f2_core(t, TRUE)
    \/ \E t \in Threads : f2_solve(t, Some(OutputOf(t)), None, 0, FALSE, FALSE)
    \/ \E t \in Threads : f2_restore(t)
    \/ \E t \in Threads : f2_read(t)
    \/ \E t \in Threads : f2_parse(t)
    \/ \E t \in Threads : f2_fields(t)
    \/ \E t \in Threads : run_finally(t)

SpecConcF2 == InitConcF2 /\ [][NextConcF2]_vars


(***************************************************************************)
(* parser.py: is_completed applied to a document.                          *)
(***************************************************************************)
DocPrefixes == {"", "some output\n", "1", " * * * "}
DocSuffixes == {"", "\n", " * * *\n", "D"}
DocPhrases ==
    {"END OF JOB", "JOB TERMINATED", "end of job", "End Of Job",
     "job terminated", "Job Terminated", "END OF  JOB", "END OF JO",
     "JOB TERMINATE", "END\nOF JOB", "ENDOFJOB", "JOB_TERMINATED",
     "error happened", ""}

CompletionDocs ==
    { a \o b \o c : a \in DocPrefixes, b \in DocPhrases, c \in DocSuffixes }

InitCompleted ==
    /\ dirs = BaseDirs
    /\ files = (DeckFile :> DeckText)
    /\ built = FALSE
    /\ environ = EmptyMap
    /\ self = NoRunner
    /\ InitRuns
    /\ document \in CompletionDocs
    /\ layout = << >>
    /\ numpy2 = TRUE
    /\ answer = None
    /\ scan = NoScan

call_is_completed ==
    /\ answer = None
    /\ answer' = Some(is_completed(document))
    /\ UNCHANGED << document, layout, numpy2, scan >>
    /\ UNCHANGED runnerVars

NextCompleted == call_is_completed

SpecCompleted == InitCompleted /\ [][NextCompleted]_vars

(***************************************************************************)
(* parser.py: the table parsers applied to print streams.                  *)
(*                                                                         *)
(* A print stream is printed from a layout: a sequence of tables, each a   *)
(* header line, its column-header lines and a body of lines.  `layout`     *)
(* keeps what was printed, `document` is the text the parser is handed.    *)
(***************************************************************************)
Kinds == {"disp", "eig", "rod", "shear", "quad"}

\* the header phrase each parser looks for
Phrase(kind) ==
    CASE kind = "disp"  -> "D I S P L A C E M E N T   V E C T O R"
      [] kind = "eig"   -> "R E A L   E I G E N V A L U E S"
      [] kind = "rod"   -> "S T R E S S E S   I N   R O D   E L E M E N T S"
      [] kind = "shear" -> "S T R E S S E S   I N   S H E A R   P A N E L S"
      [] kind = "quad"  -> "S T R E S S E S   I N   Q U A D R I L A T E R A L"
      [] kind = "tri"   -> "S T R E S S E S   I N   T R I A N G U L A R"

\* the column-header lines the engine prints under the header
ColumnHeaders(kind) ==
    CASE kind = "disp"  -> << "  POINT ID.  TYPE  T1  T2  T3  R1  R2  R3" >>
      [] kind = "eig"   -> << "  MODE  EXTRACTION  EIGENVALUE  RADIAN  CYCLIC",
                              "  NO.  ORDER  FREQUENCY  FREQUENCY" >>
      [] kind = "rod"   -> << "  ELEMENT  AXIAL  SAFETY  TORSIONAL",
                              "  ID.  STRESS  MARGIN  STRESS" >>
      [] kind = "shear" -> << "  ELEMENT  MAX  AVG  SAFETY",
                              "  ID.  SHEAR  SHEAR  MARGIN" >>
      [] kind \in {"quad", "tri"} ->
                           << "  ELEMENT  STRESSES IN ELEMENT COORD SYSTEM",
                              "  ID.  NORMAL-X  NORMAL-Y  SHEAR-XY  ANGLE" >>

\* the columns that follow the ID of a row
RowTail(kind) ==
    CASE kind = "disp"  -> << "G", "0.0", "6.326195E-04", "3.889221E-02",
                              "0.0", "0.0", "0.0" >>
      [] kind = "eig"   -> << "1", "3.237408E+01", "5.689822E+00",
                              "9.055634E-01", "1.0", "3.237408E+01" >>
      [] kind = "rod"   -> << "1.5E+02", "2.0E-01", "0.0" >>
      [] kind = "shear" -> << "1.2E+03", "1.1E+03" >>
      [] kind \in {"quad", "tri"} ->
                           << "1.067032E+03", "2.0E+02", "-3.1E+01", "4.5",
                              "1.1E+03", "1.9E+02", "4.4E+02" >>

\* rows that print a value of their own in every column: the token at
\* position q of row n reads n.qE+01, that is the number 10 n + q
ColumnToken(n, q) == ToString(n) \o "." \o ToString(q) \o "E+01"

\* the number of columns of a row, and the columns the parser has no use
\* for: type code, extraction order and radian frequency, angle
Width(kind) == IF kind = "eig" THEN 7 ELSE 8
Unused(kind) ==
    CASE kind = "disp" -> {2}
      [] kind = "eig"  -> {2, 4}
      [] kind \in {"quad", "tri"} -> {5}

\* the token at position q of row d: in a row of class "odd" the unused
\* column holds a token that is no number (the extraction order stays one)
TokenAt(kind, d, q) ==
    IF kind = "disp" /\ q = 2 THEN (IF d.cls = "odd" THEN "?" ELSE "G")
    ELSE IF kind = "eig" /\ q = 2 THEN ToString(d.val + 3)
    ELSE IF q \in Unused(kind) /\ d.cls = "odd" THEN "******"
    ELSE ColumnToken(d.val, q)

\* the columns after the ID; a row of class "extra" prints one more token
ColumnTail(kind, d) ==
    [p \in 1..(Width(kind) - 1) |-> TokenAt(kind, d, p + 1)]
      \o (IF d.cls = "extra" THEN << "9.9E+09" >> ELSE << >>)

\* tokens printed in their columns, two blanks before each
RECURSIVE Columns(_)
Columns(toks) == IF toks = << >> THEN "" ELSE "  " \o Head(toks) \o Columns(Tail(toks))

\* one packed group of a shear-panel line: ID, two shear values, margin
GroupText(g) ==
    Columns(<< g.id >>)
      \o (CASE g.state = "ok"    -> Columns(<< "1.2E+03", "1.1E+03" >>)
            [] g.state = "short" -> Columns(<< "1.2E+03" >>)
            [] g.state = "bad"   -> Columns(<< "******", "1.1E+03" >>))
      \o (IF g.margin = "" THEN "" ELSE Columns(<< g.margin >>))

RECURSIVE GroupsText(_)
GroupsText(gs) == IF gs = << >> THEN "" ELSE GroupText(Head(gs)) \o GroupsText(Tail(gs))

\* a rod row: ID, axial stress, margin (when `margin`), torsional stress,
\* each a number of its own; with `packed` a second element group follows
RodRow(d, margin, packed) ==
    << d.id, ColumnToken(d.val, 2) >>
      \o (IF margin THEN << ColumnToken(d.val, 3) >> ELSE << >>)
      \o << ColumnToken(d.val, 4) >>
      \o (IF packed
          THEN << ToString(d.val + 50), ColumnToken(d.val, 6) >>
                 \o (IF margin THEN << ColumnToken(d.val, 7) >> ELSE << >>)
                 \o << ColumnToken(d.val, 8) >>
          ELSE << >>)

\* one line of a table body; column 1 holds the carriage-control code cc
BodyLine(kind, d) ==
    LET tail == RowTail(kind)
    IN  CASE d.cls = "row"     -> d.cc \o Columns(<< d.id >> \o tail)
          [] d.cls \in {"varied", "odd", "extra"}
                               -> d.cc \o Columns(<< d.id >> \o ColumnTail(kind, d))
          [] d.cls = "margin"  -> d.cc \o Columns(RodRow(d, TRUE, FALSE))
          [] d.cls = "pair"    -> d.cc \o Columns(RodRow(d, TRUE, TRUE))
          [] d.cls = "bare"    -> d.cc \o Columns(RodRow(d, FALSE, TRUE))
          [] d.cls = "plus"    -> d.cc \o Columns(<< "+" \o d.id >> \o tail)
          [] d.cls = "msgrow"  -> d.cc \o Columns(<< d.id >> \o tail \o << "MESSAGE" >>)
          [] d.cls = "tight"   -> d.cc \o d.id \o Columns(tail)
          [] d.cls = "few"     -> d.cc \o Columns(<< d.id >> \o SubSeq(tail, 1, Len(tail) - 1))
          [] d.cls = "nonnum"  -> d.cc \o Columns(<< d.id >> \o [tail EXCEPT ![Len(tail)] = "******"])
          [] d.cls = "partial" -> d.cc \o Columns(<< d.id, "1.2E+03", "1.1E+03", "14", "******" >>)
          [] d.cls = "groups"  -> d.cc \o GroupsText(d.groups)
          [] d.cls = "blank"   -> d.cc
          [] d.cls = "msg"     -> d.cc \o "*** USER INFORMATION MESSAGE 3035"
          [] d.cls = "page"    -> d.cc \o "     NASTRAN   PAGE   12"
          [] d.cls = "dspace"  -> d.cc \o "     SUBCASE 2"

RECURSIVE BodyLines(_, _)
BodyLines(kind, body) ==
    IF body = << >> THEN << >>
    ELSE << BodyLine(kind, Head(body)) >> \o BodyLines(kind, Tail(body))

\* the lines of one table
TableLines(t) ==
    (IF t.hdr THEN << t.cc \o "     " \o Phrase(t.kind) >> ELSE << >>)
      \o (IF "cut" \in DOMAIN t THEN << >> ELSE ColumnHeaders(t.kind))
      \o BodyLines(t.kind, t.body)

RECURSIVE LayoutLines(_)
LayoutLines(tables) ==
    IF tables = << >> THEN << >>
    ELSE TableLines(Head(tables)) \o LayoutLines(Tail(tables))

\* the text of the lines, each ended by a newline
RECURSIVE TextOf(_)
TextOf(lines) == IF lines = << >> THEN "" ELSE Head(lines) \o "\n" \o TextOf(Tail(lines))

\* body-line descriptors: the class of the line, its control code, the ID it
\* prints (val is the number the ID denotes, as an int32) and its groups
Line(cls, cc, n) ==
    [cls |-> cls, cc |-> cc, id |-> ToString(n), val |-> n, groups |-> << >>]
Row(n) == Line("row", " ", n)
NoRow(cls, cc) == [cls |-> cls, cc |-> cc, id |-> "", val |-> 0, groups |-> << >>]
Blank == NoRow("blank", " ")
PageBreak == NoRow("page", "1")
DoubleSpace == NoRow("dspace", "0")
Table(kind, hdr, cc, body) == [kind |-> kind, hdr |-> hdr, cc |-> cc, body |-> body]

\* a table cut after its header line: no column headers and no rows, only
\* the lines `ending`
CutTable(kind, cc, ending) ==
    [kind |-> kind, hdr |-> TRUE, cc |-> cc, body |-> ending, cut |-> TRUE]

\* sequences of at most n elements of S
SeqUpTo(S, n) == UNION { [1..m -> S] : m \in 0..n }

\* single tables: every body of at most MaxRows lines
BodyChoices(kind) ==
    { Row(11), Row(12), Line("few", " ", 19), Line("nonnum", " ", 19),
      Blank, PageBreak, DoubleSpace }
      \cup (IF kind = "eig" THEN { NoRow("msg", " ") } ELSE {})
      \cup (IF kind = "shear" THEN { Line("partial", " ", 13) } ELSE {})

SingleTables ==
    UNION { { << Table(k, TRUE, " ", b) >> : b \in SeqUpTo(BodyChoices(k), MaxRows) }
            : k \in Kinds }

\* several tables of one kind: table number n holds the one row 20 + n; the
\* tables differ in the control code of their header line and in the line
\* (none, page break, double space) that follows their row
TableEndings == { << >>, << PageBreak >>, << DoubleSpace >> }
HeaderCodes == {" ", "0", "1"}

NthTable(kind, n, c) ==
    Table(kind, TRUE, c.cc, << Row(20 + n) >> \o c.ending)

SeveralTables ==
    UNION { { [n \in 1..m |-> NthTable(k, n, cs[n])] :
                cs \in [1..m -> [cc : HeaderCodes, ending : TableEndings]] }
            : k \in Kinds, m \in 1..MaxTables }

\* shear-panel lines of packed groups: group number n holds element 30 + n,
\* with or without a margin token; the last group may be cut short or hold
\* a field that is no number
Margins == {"", "*"}
GroupStates == {"ok", "short", "bad"}

NthGroup(n, m, c, last) ==
    [id |-> ToString(30 + n), val |-> 30 + n, margin |-> c[n],
     state |-> IF n = m THEN last ELSE "ok"]

GroupLines ==
    UNION { { [cls |-> "groups", cc |-> " ", id |-> "", val |-> 0,
               groups |-> [n \in 1..m |-> NthGroup(n, m, c, last)]] :
                c \in [1..m -> Margins], last \in GroupStates }
            : m \in 1..MaxGroups }

PackedTables ==
    { << Table("shear", TRUE, " ", << g >> \o more) >> :
        g \in GroupLines, more \in { << >>, << Row(11) >> } }

\* a table printed without its header line
HeaderlessTables ==
    { << Table(k, FALSE, " ", << Row(11), Row(12) >>) >> : k \in Kinds }

\* rows whose ID is at or beyond the limits of int32 and int64: the digits
\* printed, and the int32 holding their low 32 bits
WideIds ==
    { [id |-> "2147483647", val |-> 2147483647],
      [id |-> "2147483648", val |-> -2147483647 - 1],
      [id |-> "-2147483649", val |-> 2147483647],
      [id |-> "9223372036854775808", val |-> 0] }

WideRow(w) == [cls |-> "row", cc |-> " ", id |-> w.id, val |-> w.val, groups |-> << >>]

WideBodies ==
    { << WideRow(w) >> : w \in WideIds }
      \cup { << Row(11), WideRow(w) >> : w \in WideIds }
      \cup { << Line("few", " ", 19), WideRow(w) >> : w \in WideIds }

WideTables ==
    { << Table(k, TRUE, " ", b) >> : k \in Kinds, b \in WideBodies }

\* rows whose column 1 is not blank: overprint, another character, and the
\* same with the ID printed right after column 1
ControlCodes == {"+", "5", "0"}

CodedBodies ==
    { << Row(11), Line(cls, cc, 12) >> :
        cls \in {"row", "tight"}, cc \in ControlCodes }

CodedTables ==
    { << Table(k, TRUE, " ", b) >> : k \in Kinds, b \in CodedBodies }

\* tables whose rows print a value of their own in every column: at most
\* MaxRows rows numbered upwards or downwards, each of them plain, with a
\* token that is no number in an unused column, with one token more than
\* the columns, or cut short of its last column
ColumnKinds == {"disp", "eig", "quad", "tri"}
ColumnClasses == {"varied", "odd", "extra", "few"}

ColumnBodies ==
    UNION { { [k \in 1..m |-> Line(cs[k], " ", IF up THEN k ELSE m + 1 - k)] :
                cs \in [1..m -> ColumnClasses], up \in BOOLEAN }
            : m \in 1..MaxRows }

ColumnTables ==
    { << Table(k, TRUE, " ", b) >> : k \in ColumnKinds, b \in ColumnBodies }

\* rod tables of one or two rows: a row prints its margin or not, and one of
\* no margin is followed on its line by a second element group
RodClasses == {"margin", "pair", "bare"}

RodBodies ==
    { << Line(c, " ", 1) >> : c \in RodClasses }
      \cup { << Line(c, " ", 1), Line(e, " ", 2) >> : c, e \in RodClasses }

RodTables == { << Table("rod", TRUE, " ", b) >> : b \in RodBodies }

\* an eigenvalue table of mode 11, at most two lines that are no mode rows,
\* and mode 12: a row cut short, a row with a field that is no number, a
\* blank line, a message, a row whose mode number is signed "+", a row with
\* the word MESSAGE after its columns, a double-space line, a page break
EigBetween ==
    { Line("few", " ", 19), Line("nonnum", " ", 19), Blank, NoRow("msg", " "),
      Line("plus", " ", 13), Line("msgrow", " ", 14), DoubleSpace, PageBreak }

EigBodies ==
    { << Row(11), a, Row(12) >> : a \in EigBetween }
      \cup { << Row(11), a, b, Row(12) >> : a, b \in EigBetween }

EigTables == { << Table("eig", TRUE, " ", b) >> : b \in EigBodies }

\* a table cut after its header line, by a page break or by nothing,
\* followed by a table of another kind with two rows
CutTables ==
    UNION { { << CutTable(k, " ", e), Table(l, TRUE, c, << Row(11), Row(12) >>) >> :
                l \in Kinds \ {k}, e \in {<< >>, << PageBreak >>}, c \in {" ", "1"} }
            : k \in Kinds }

ParserLayouts ==
    SingleTables \cup SeveralTables \cup PackedTables \cup HeaderlessTables
      \cup WideTables \cup CodedTables \cup ColumnTables \cup RodTables
      \cup EigTables \cup CutTables

\* the layout holds an ID that does not fit an int32
RECURSIVE HasWideId(_)
HasWideId(tables) ==
    /\ tables # << >>
    /\ \/ \E n \in 1..Len(Head(tables).body) :
             \E w \in WideIds : Head(tables).body[n].id = w.id
       \/ HasWideId(Tail(tables))

\* a print stream, and the NumPy of the installation (which matters only
\* to streams holding a wide ID)
InitParsers ==
    /\ dirs = BaseDirs
    /\ files = (DeckFile :> DeckText)
    /\ built = FALSE
    /\ environ = EmptyMap
    /\ self = NoRunner
    /\ InitRuns
    /\ layout \in ParserLayouts
    /\ document = TextOf(LayoutLines(layout))
    /\ numpy2 \in (IF HasWideId(layout) THEN BOOLEAN ELSE {TRUE})
    /\ answer = None
    /\ scan = NoScan

\* what a call of parser function fn left: its return value, or its exception
Outcome(fn, r) == Some([fn |-> fn, raised |-> IsRaise(r), value |-> r])

\* the streams the parser functions are called on three times, in every
\* order; the other streams are parsed once
ReparsedLayouts == HeaderlessTables \cup CodedTables \cup WideTables

MayCall == Len(answer) < (IF layout \in ReparsedLayouts THEN 3 ELSE 1)

\* mutant of call_parse_displacements: the call uses up the document
call_parse_displacements_once ==
    /\ MayCall
    /\ answer' = answer \o Outcome("parse_displacements", parse_displacements(document, 1))
    /\ document' = ""
    /\ UNCHANGED << layout, numpy2, scan >>
    /\ UNCHANGED runnerVars

call_parse_displacements ==
    /\ MayCall
    /\ answer' = answer \o Outcome("parse_displacements", parse_displacements(document, 1))
    /\ UNCHANGED << document, layout, numpy2, scan >>
    /\ UNCHANGED runnerVars

call_parse_eigenvalues ==
    /\ MayCall
    /\ answer' = answer \o Outcome("parse_eigenvalues", parse_eigenvalues(document))
    /\ UNCHANGED << document, layout, numpy2, scan >>
    /\ UNCHANGED runnerVars

call_parse_rod_stresses ==
    /\ MayCall
    /\ answer' = answer \o Outcome("parse_rod_stresses", parse_rod_stresses(document, 1))
    /\ UNCHANGED << document, layout, numpy2, scan >>
    /\ UNCHANGED runnerVars

call_parse_shear_stresses ==
    /\ MayCall
    /\ answer' = answer \o Outcome("parse_shear_stresses", parse_shear_stresses(document, 1))
    /\ UNCHANGED << document, layout, numpy2, scan >>
    /\ UNCHANGED runnerVars

call_parse_membrane_stresses ==
    /\ MayCall
    /\ answer' = answer \o Outcome("parse_membrane_stresses",
                         parse_membrane_stresses(document, 1))
    /\ UNCHANGED << document, layout, numpy2, scan >>
    /\ UNCHANGED runnerVars

NextParsers ==
    \/ call_parse_displacements
    \/ call_parse_eigenvalues
    \/ call_parse_rod_stresses
    \/ call_parse_shear_stresses
    \/ call_parse_membrane_stresses

SpecParsers == InitParsers /\ [][NextParsers]_vars

(***************************************************************************)
(* parser.py: a table parser followed through its loops on a print stream. *)
(***************************************************************************)
\* the header phrase of a kind on the last line of the stream
LastLineTables == { << CutTable(k, c, << >>) >> : k \in Kinds, c \in HeaderCodes }

\* two tables of one kind, the second right after the line that ends the
\* first
AdjacentTables ==
    { << NthTable(k, 1, c), NthTable(k, 2, d) >> :
        k \in Kinds, c, d \in [cc : HeaderCodes, ending : TableEndings] }

ScanLayouts ==
    LastLineTables \cup CutTables \cup AdjacentTables \cup EigTables
      \cup PackedTables \cup HeaderlessTables \cup CodedTables

InitScan ==
    /\ dirs = BaseDirs
    /\ files = (DeckFile :> DeckText)
    /\ built = FALSE
    /\ environ = EmptyMap
    /\ self = NoRunner
    /\ InitRuns
    /\ layout \in ScanLayouts
    /\ document = TextOf(LayoutLines(layout))
    /\ numpy2 = TRUE
    /\ answer = None
    /\ scan = NoScan

\* the call: i = 0
scan_begin(fn) ==
    /\ scan.loop = "idle"
    /\ scan' = [NoScan EXCEPT !.fn = fn, !.loop = "outer"]
    /\ UNCHANGED << document, layout, numpy2, answer >>
    /\ UNCHANGED runnerVars

\* one iteration of the outer loop, up to the entry of the row loop
outer_iteration(sc, lines) ==
    IF ~(sc.i < Len(lines)) THEN [sc EXCEPT !.loop = "done"]
    ELSE IF header_at(sc.fn, lines[sc.i + 1])
    THEN IF /\ sc.fn = "parse_eigenvalues"
            /\ skip_to(lines, sc.i + 1, "MODE") >= Len(lines)
         THEN [sc EXCEPT !.loop = "done"]
         ELSE [sc EXCEPT !.loop = "inner",
                         !.acc = rows_entry(sc.fn, entry_index(sc.fn, lines, sc.i))]
    ELSE [sc EXCEPT !.i = @ + 1]

scan_outer ==
    /\ scan.loop = "outer"
    /\ scan' = outer_iteration(scan, splitlines(document))
    /\ UNCHANGED << document, layout, numpy2, answer >>
    /\ UNCHANGED runnerVars

\* one iteration of the row loop, or its exit
inner_iteration(sc, lines) ==
    IF ~(sc.acc.i < Len(lines)) THEN after_rows(sc)
    ELSE after_iteration(sc, row_iteration(sc.fn, lines, sc.acc))

scan_inner ==
    /\ scan.loop = "inner"
    /\ scan' = inner_iteration(scan, splitlines(document))
    /\ UNCHANGED << document, layout, numpy2, answer >>
    /\ UNCHANGED runnerVars

NextScan ==
    \/ \E fn \in ParserFunctions : scan_begin(fn)
    \/ scan_outer
    \/ scan_inner

SpecScan == InitScan /\ [][NextScan]_vars



(***************************************************************************)
(* Properties.                                                             *)
(***************************************************************************)
\* the call of thread t has returned or raised
Done(t) == pc[t] = "done"
Raised(t) == Done(t) /\ loc[t].exc # ""
Returned(t) == Done(t) /\ loc[t].exc = "" /\ loc[t].retval # None
ScratchOf(t) == hist[t].created[1]

\* C1: with cleanup=True the scratch directory a call of run() created does
\* not exist any more (nor any file below it) once the call has returned or
\* raised, on every exit path and in both modes; with cleanup=False it still
\* exists.
C1_ScratchRemoved ==
    \A t \in Threads :
        (Done(t) /\ hist[t].created # None) =>
            IF loc[t].cleanup
            THEN /\ ScratchOf(t) \notin dirs
                 /\ \A f \in DOMAIN files : ~Below(f, ScratchOf(t))
            ELSE ScratchOf(t) \in dirs

\* a call with cleanup=True that created its directory, filled it and raised
C1_Witness ==
    /\ Raised(1)
    /\ hist[1].created # None
    /\ loc[1].cleanup
    /\ hist[1].engine_called

\* C2: an in-process run executed alone leaves os.environ as it found it on
\* every exit path (return, exception of the engine or of its import,
\* failure to write the deck file).
C2_EnvironRestored ==
    \A t \in Threads :
        (Done(t) /\ self.mode = "f2py" /\ ~hist[t].overlapped) =>
            environ = hist[t].environ0

\* C3: when the child exceeds the timeout, run() raises nothing and returns
\* returncode -1, empty output and log, completed False and no records; the
\* log file is not read and nothing is parsed, whatever the child wrote.
C3_TimeoutSentinel ==
    \A t \in Threads :
        (child[t].state = "killed" /\ pc[t] \in {"finally", "done"}) =>
            /\ loc[t].exc = ""
            /\ loc[t].retval # None
            /\ loc[t].retval[1].returncode = -1
            /\ loc[t].retval[1].output = ""
            /\ loc[t].retval[1].log = ""
            /\ loc[t].retval[1].completed = FALSE
            /\ loc[t].retval[1].displacements = << >>
            /\ loc[t].retval[1].stresses = << >>
            /\ loc[t].retval[1].eigenvalues = None
            /\ ~hist[t].log_read
            /\ ~hist[t].parsed

\* a timed-out run whose child had already printed a complete table and
\* written its log
C3_Witness ==
    /\ Done(1)
    /\ child[1].state = "killed"
    /\ child[1].stdout = DocStatic
    /\ child[1].logtext # None

\* the scratch directory of thread t is in use
InUse(t) == pc[t] \notin {"idle", "mkdtemp", "done"}

C4_Isolated ==
    /\ \A t \in Threads, u \in Threads :
          (t # u /\ InUse(t) /\ InUse(u)) => loc[t].scratch_dir # loc[u].scratch_dir
    /\ \A t \in Threads : pc[t] # "idle" => environ = hist[t].environ0
    /\ \A t \in Threads :
          child[t].state # "none" =>
              /\ child[t].cwd = loc[t].scratch_dir
              /\ child[t].env = loc[t].env
              /\ child[t].env["DIRCTY"] = loc[t].scratch_dir
              /\ child[t].env["LOGNM"] = Join(loc[t].scratch_dir, "run.log")
    /\ \A t \in Threads : hist[t].removed \subseteq {loc[t].scratch_dir}
    /\ \A t \in Threads :
          (Done(t) /\ child[t].state = "exited") =>
              /\ Returned(t)
              /\ loc[t].retval[1].output = child[t].stdout
              /\ loc[t].retval[1].returncode = child[t].returncode
              /\ loc[t].retval[1].log =
                    IF child[t].logtext = None THEN "" ELSE child[t].logtext[1]

C4_OnlyOwnRemoved ==
    /\ \A d \in dirs \ dirs' :
          \E t \in Threads : pc[t] = "finally" /\ pc'[t] = "done"
                               /\ d = loc[t].scratch_dir
    /\ \A f \in (DOMAIN files) \ (DOMAIN files') :
          \E t \in Threads : pc[t] = "finally" /\ pc'[t] = "done"
                               /\ Below(f, loc[t].scratch_dir)
    /\ environ' = environ

\* C4: in every interleaving of two out-of-process runs, the runs never use
\* the same scratch directory, os.environ is never modified (the derived
\* variables go to the run's own child only), a run removes nothing but its
\* own directory, and its result is built from its own child's standard
\* output and exit code and from its own log file.
C4_ConcurrentRunsIndependent == []C4_Isolated /\ [][C4_OnlyOwnRemoved]_vars

\* both runs overlapped and returned, each child having written its own log
C4_Witness ==
    /\ \A t \in Threads : Returned(t) /\ hist[t].overlapped
                            /\ child[t].state = "exited"
                            /\ child[t].logtext # None
    /\ loc[1].retval[1].log # loc[2].retval[1].log
    /\ loc[1].cleanup /\ ~loc[2].cleanup


RunErrors ==
    {"FileNotFoundError: deck", "FileNotFoundError: mkdtemp", "OSError: spawn",
     "OSError: write_text", "ImportError", "EngineError", "OverflowError"}

ConfigValid ==
    /\ self.mode \in {"subprocess", "f2py"}
    /\ self.mode = "subprocess" => exists(self.executable[1])
    /\ self.mode = "f2py" => built
    /\ is_dir(self.rfdir)
    /\ is_dir(IF self.scratch_root # None THEN self.scratch_root[1] ELSE TMPDIR)

\* no scratch directory was created, no child started, no engine call made
NothingStarted ==
    /\ \A t \in Threads : /\ hist[t].created = None
                          /\ child[t].state = "none"
                          /\ ~hist[t].engine_called
    /\ \A d \in dirs : Dirname(d) \notin {TMPDIR, "/work"}

\* C6: every configuration error (executable missing, extension not built,
\* unsupported mode, rigid-format directory missing, invalid workspace root)
\* is raised as an exception before any scratch directory is created and
\* before any child process or engine call is started.
C6_ConfigErrorsFailFirst ==
    /\ self.state = "failed" => self.exc # "" /\ NothingStarted
    /\ (self.state = "ok" /\ ~ConfigValid) =>
          /\ NothingStarted
          /\ \A t \in Threads : Done(t) => Raised(t)

\* a runner given a workspace root that is no directory: run() has raised
C6_Witness ==
    /\ self.state = "ok"
    /\ self.scratch_root = Some("/nope")
    /\ Raised(1)
    /\ loc[1].exc = "FileNotFoundError: mkdtemp"

\* C7: for every exit code rc of a child that finishes within the timeout,
\* run() returns without raising a result whose returncode is rc, whose
\* output is the captured standard output, and whose completion flag and
\* records are those parsed from that output, whether rc is zero or not.
C7_ExitCodeSurfaced ==
    \A t \in Threads :
      (Done(t) /\ child[t].state = "exited") =>
        /\ Returned(t)
        /\ loc[t].retval[1].returncode = child[t].returncode
        /\ loc[t].retval[1].output = child[t].stdout
        /\ loc[t].retval[1].completed = is_completed(child[t].stdout)
        /\ loc[t].retval[1].displacements = parse_displacements(child[t].stdout, 1)
        /\ loc[t].retval[1].eigenvalues = parse_eigenvalues(child[t].stdout)
        /\ loc[t].retval[1].stresses =
              parse_rod_stresses(child[t].stdout, 1)
                \o parse_shear_stresses(child[t].stdout, 1)
                \o parse_membrane_stresses(child[t].stdout, 1)

\* a child that exited with a nonzero code after printing a complete run
C7_Witness ==
    /\ Returned(1)
    /\ child[1].state = "exited"
    /\ child[1].returncode = 1
    /\ loc[1].retval[1].returncode = 1
    /\ loc[1].retval[1].completed
    /\ Len(loc[1].retval[1].displacements) = 1

\* the names _setup_env is to define
SingleNames ==
    {"RFDIR", "DBMEM", "OCMEM", "DIRCTY", "LOGNM", "NPTPNM", "DICTNM", "PLTNM",
     "PUNCHNM", "OPTPNM"}
ChannelNames ==
    {"LOGNM", "NPTPNM", "DICTNM", "PLTNM", "PUNCHNM", "OPTPNM"}
      \cup { "SOF" \o ToString(i) : i \in 1..10 }
      \cup { "FTN" \o ToString(i) : i \in 11..23 }
EngineNames == SingleNames \cup ChannelNames

\* thread t holds the mapping _setup_env returned
HasEnv(t) == pc[t] \notin {"idle", "mkdtemp", "sp_env", "f2_env"} /\ hist[t].created # None

\* C8: the mapping returned by _setup_env defines all of RFDIR, DBMEM, OCMEM,
\* DIRCTY, the named channels, SOF1..SOF10 and FTN11..FTN23; DIRCTY is the
\* scratch directory, every channel variable is "none" or a path directly
\* inside the scratch directory, and no value of the parent environment
\* survives under one of these names: each is the value derived from the
\* runner and the scratch directory.
C8_EnvFullyPopulated ==
    \A t \in Threads :
      HasEnv(t) =>
        LET env == loc[t].env
            d == loc[t].scratch_dir
        IN  /\ EngineNames \subseteq DOMAIN env
            /\ env["DIRCTY"] = d
            /\ env["RFDIR"] = self.rfdir
            /\ env["DBMEM"] = ToString(self.dbmem)
            /\ env["OCMEM"] = ToString(self.ocmem)
            /\ \A n \in ChannelNames : env[n] = "none" \/ DirectlyInside(env[n], d)
            /\ \A n \in EngineNames :
                  (n \in DOMAIN hist[t].environ0 /\ env[n] = hist[t].environ0[n])
                      => env[n] = "none"

\* the mapping was derived in a process whose environment already held
\* values for the engine's names
C8_Witness ==
    /\ HasEnv(1)
    /\ hist[1].environ0 = StaleEnv
    /\ loc[1].env["FTN23"] = Join(loc[1].scratch_dir, "ftn23")
    /\ loc[1].env["PATH"] = "/usr/bin"

\* the engine invocation of thread t ended without timeout and run() is
\* about to return
EngineEnded(t) ==
    /\ pc[t] = "finally"
    /\ child[t].state = "exited" \/ hist[t].engine_returned

\* C9: in both modes, when the engine invocation ends without timeout and
\* run.log is absent from the scratch directory, run() raises nothing and
\* the result's log is ""; when the file is present the log is its content.
C9_MissingLogIsEmpty ==
    \A t \in Threads :
      EngineEnded(t) =>
        LET log_path == Join(loc[t].scratch_dir, "run.log")
        IN  /\ loc[t].exc = ""
            /\ loc[t].retval # None
            /\ loc[t].retval[1].log = IF isfile(log_path) THEN files[log_path] ELSE ""

\* an in-process run whose engine returned without writing a log
C9_Witness ==
    /\ EngineEnded(1)
    /\ hist[1].engine_returned
    /\ ~isfile(Join(loc[1].scratch_dir, "run.log"))
    /\ loc[1].retval[1].log = ""



\* str.upper() on the letters of the phrases
UpperChar(c) ==
    CASE c = "a" -> "A" [] c = "b" -> "B" [] c = "d" -> "D" [] c = "e" -> "E"
      [] c = "f" -> "F" [] c = "i" -> "I" [] c = "j" -> "J" [] c = "m" -> "M"
      [] c = "n" -> "N" [] c = "o" -> "O" [] c = "r" -> "R" [] c = "t" -> "T"
      [] OTHER -> c

RECURSIVE upper(_)
upper(s) == IF s = "" THEN "" ELSE UpperChar(Head(s)) \o upper(Tail(s))

\* the two terminal phrases of the engine's print stream
Sentinels == {"END OF JOB", "JOB TERMINATED"}

\* phrase p occurs in document d: d is some text, then p, then some text
Occurs(p, d) ==
    \E i \in 0..Len(d) :
        /\ i + Len(p) <= Len(d)
        /\ d = SubSeq(d, 1, i) \o p \o SubSeq(d, i + Len(p) + 1, Len(d))

\* C10 as stated: is_completed returns true if and only if one of the two
\* phrases occurs in the document in any letter case, at any position.
C10_AnyCaseAnyPosition ==
    answer # None =>
        (answer[1] <=> \E p \in Sentinels : Occurs(p, upper(document)))

\* C10 as amended: is_completed returns true if and only if one of the two
\* phrases occurs in the document written in capital letters exactly as
\* END OF JOB or JOB TERMINATED, at any position; a phrase written in another
\* letter case does not count.
C10_ExactCaseAnyPosition ==
    answer # None =>
        (answer[1] <=> \E p \in Sentinels : Occurs(p, document))

\* is_completed answered true for a phrase in the middle of a document
C10_Witness ==
    /\ answer = Some(TRUE)
    /\ \E p \in Sentinels :
          /\ Occurs(p, document)
          /\ ~StartsWith(document, p)
          /\ Len(document) > Len(p) + 2


(***************************************************************************)
(* Properties of the table parsers (SpecParsers).                          *)
(***************************************************************************)
\* the parser of each kind of table
ParserOf(kind) ==
    CASE kind = "disp"  -> "parse_displacements"
      [] kind = "eig"   -> "parse_eigenvalues"
      [] kind = "rod"   -> "parse_rod_stresses"
      [] kind = "shear" -> "parse_shear_stresses"
      [] kind \in {"quad", "tri"} -> "parse_membrane_stresses"

\* the parser of the kind of the printed tables was called on the stream
CalledOn == answer # None /\ layout # << >> /\ answer[1].fn = ParserOf(layout[1].kind)

\* the call raised / the records it returned (None is no record, a result one)
Raises == answer[1].raised
Records == IF Raises THEN << >> ELSE answer[1].value

\* the ID column of a record
IdsOf(rec) ==
    IF "node_ids" \in DOMAIN rec THEN rec.node_ids
    ELSE IF "element_ids" \in DOMAIN rec THEN rec.element_ids
    ELSE rec.mode_numbers

\* the IDs of the only record returned (none when no record was returned)
IdsReturned == IF Records = << >> THEN << >> ELSE IdsOf(Records[1])

\* the numbers printed as the IDs of a sequence of rows
RECURSIVE Vals(_)
Vals(rows) == IF rows = << >> THEN << >> ELSE << Head(rows).val >> \o Vals(Tail(rows))

\* the stream is one table under a plain header whose lines are all
\* single-spaced: no page break, no double space, no character in column 1
PlainTable ==
    /\ Len(layout) = 1
    /\ layout[1].hdr
    /\ layout[1].cc = " "
    /\ \A n \in 1..Len(layout[1].body) :
          /\ layout[1].body[n].cc = " "
          /\ layout[1].body[n].cls \notin {"page", "dspace", "tight"}

\* a row that fails its token count or a numeric conversion
Failing(d) ==
    \/ d.cls \in {"few", "nonnum", "partial"}
    \/ d.cls = "groups" /\ d.groups[Len(d.groups)].state # "ok"

\* the leading packed groups of a line that convert
RECURSIVE LeadingGroups(_)
LeadingGroups(gs) ==
    IF gs = << >> \/ Head(gs).state # "ok" THEN << >>
    ELSE << Head(gs) >> \o LeadingGroups(Tail(gs))

\* the rows (and packed groups) of a line that converts as a whole
RowsOf(d) ==
    CASE d.cls \in {"row", "varied", "odd", "extra", "margin", "pair", "bare"} -> << d >>
      [] d.cls = "groups" -> d.groups
      [] OTHER            -> << >>

\* the rows of a body that precede its first failing row
RECURSIVE C11_BeforeFirstFailing(_)
C11_BeforeFirstFailing(body) ==
    IF body = << >> \/ Failing(Head(body)) THEN << >>
    ELSE RowsOf(Head(body)) \o C11_BeforeFirstFailing(Tail(body))

\* C11 (as stated): for every kind, the record built from a table holds
\* exactly the rows that precede the first row failing its token count or a
\* numeric conversion, and the parser does not raise.
C11_TruncatedAtFirstFailingRow ==
    (CalledOn /\ PlainTable /\ ~HasWideId(layout)) =>
        /\ ~Raises
        /\ Len(Records) <= 1
        /\ IdsReturned = Vals(C11_BeforeFirstFailing(layout[1].body))

\* what each kind keeps of a body of lines it does not stop at (a line that
\* is no row is stepped over): a failing row ends
\* a displacement, rod or membrane table; it is skipped in the eigenvalue
\* table; a shear-panel line gives its leading groups, and ends the table
\* when it gives none
RECURSIVE KeptRows(_, _)
KeptRows(kind, body) ==
    IF body = << >> THEN << >>
    ELSE LET d == Head(body)
             rest == KeptRows(kind, Tail(body))
         IN  IF d.cls \in {"blank", "msg", "page", "dspace"} THEN rest
             ELSE IF ~Failing(d) THEN RowsOf(d) \o rest
             ELSE IF kind = "eig" THEN rest
             ELSE IF kind = "shear" /\ d.cls = "partial" THEN << d >> \o rest
             ELSE IF kind = "shear" /\ d.cls = "groups" /\ LeadingGroups(d.groups) # << >>
             THEN LeadingGroups(d.groups) \o rest
             ELSE << >>

\* the IDs that lie outside int32, and those that lie outside int64
BeyondInt32 == {"2147483648", "-2147483649", "9223372036854775808"}
BeyondInt64 == {"9223372036854775808"}

\* an ID among the rows does not fit the ID array of the installation
TooWide(rows) ==
    \E k \in 1..Len(rows) :
        rows[k].id \in (IF numpy2 THEN BeyondInt32 ELSE BeyondInt64)

\* C11 (amended): a failing row ends a displacement, rod or membrane table,
\* is skipped in the eigenvalue table, and in a shear-panel table keeps the
\* groups before the failing one and ends the table only when the first
\* group of the line fails; the parser raises only OverflowError, and does
\* so exactly when a kept ID does not fit the int32 ID array.
C11_FailingRowPerKind ==
    (CalledOn /\ PlainTable) =>
        LET kept == KeptRows(layout[1].kind, layout[1].body)
        IN  /\ Raises <=> TooWide(kept)
            /\ Raises => answer[1].value = Raise("OverflowError")
            /\ ~Raises => /\ Len(Records) <= 1
                          /\ IdsReturned = Vals(kept)

\* a table with a row before and a row after a failing row was parsed
C11_Witness ==
    /\ CalledOn /\ PlainTable /\ ~Raises
    /\ Len(layout[1].body) = 3
    /\ layout[1].body[1].cls = "row"
    /\ Failing(layout[1].body[2])
    /\ layout[1].body[3].cls = "row"
    /\ IdsReturned # << >>


\* the lines of a body that precede its first line of control code in codes
RECURSIVE BeforeCode(_, _)
BeforeCode(body, codes) ==
    IF body = << >> \/ Head(body).cc \in codes THEN << >>
    ELSE << Head(body) >> \o BeforeCode(Tail(body), codes)

\* the stream is one table under a plain header whose lines carry a blank,
\* a '0' or a '1' in column 1; in an eigenvalue table no row carries a code
OneTable ==
    /\ Len(layout) = 1
    /\ layout[1].hdr
    /\ layout[1].cc = " "
    /\ ~HasWideId(layout)
    /\ \A n \in 1..Len(layout[1].body) :
          LET d == layout[1].body[n]
          IN  /\ d.cc \in {" ", "0", "1"}
              /\ d.cls # "groups"
              /\ (layout[1].kind = "eig" /\ d.cc # " ") => d.cls \in {"page", "dspace"}

\* C12 (as stated): for every kind, row accumulation stops at the first line
\* after the column header whose control code is '1' or '0': no row on or
\* after such a line is added to the record.
C12_StopsAtPageOrDoubleSpace ==
    (CalledOn /\ OneTable) =>
        /\ ~Raises
        /\ IdsReturned =
              Vals(KeptRows(layout[1].kind, BeforeCode(layout[1].body, {"0", "1"})))

\* the control codes a kind stops at
StopCodes(kind) == IF kind = "eig" THEN {"1"} ELSE {"0", "1"}

\* C12 (amended): a displacement, rod, shear-panel or membrane table stops at
\* the first line whose control code is '1' or '0'; the eigenvalue table
\* stops at the first page-break line only, and keeps the rows that follow
\* a double-space line.
C12_StopsPerKind ==
    (CalledOn /\ OneTable) =>
        /\ ~Raises
        /\ IdsReturned =
              Vals(KeptRows(layout[1].kind,
                            BeforeCode(layout[1].body, StopCodes(layout[1].kind))))

\* a table with a row before and a row after a double-space line was parsed
C12_Witness ==
    /\ CalledOn /\ OneTable
    /\ Len(layout[1].body) = 3
    /\ layout[1].body[1].cls = "row"
    /\ layout[1].body[2].cc = "0"
    /\ layout[1].body[3].cls = "row"
    /\ IdsReturned # << >>


\* the stream is one table whose second row carries a character other than
\* a blank, '0' or '1' in column 1, before its columns or right before its ID
C13_CodedRow ==
    /\ Len(layout) = 1
    /\ layout[1].hdr
    /\ Len(layout[1].body) = 2
    /\ layout[1].body[1].cls = "row" /\ layout[1].body[1].cc = " "
    /\ layout[1].body[2].cls \in {"row", "tight"}
    /\ layout[1].body[2].cc \in {"+", "5"}

\* C13: column 1 is a carriage-control code and never data: the tokens of a
\* row are those of the line without its first character, so a row whose
\* column 1 holds '+' or a digit is parsed as the same row with a blank there.
C13_ColumnOneIsNeverData ==
    (CalledOn /\ C13_CodedRow) =>
        /\ ~Raises
        /\ IdsReturned = Vals(layout[1].body)

\* the stream is a sequence of tables, each a header line (with or without
\* a control code), its column headers, one valid row and at most one
\* page-break or double-space line
ConsecutiveTables ==
    /\ layout # << >>
    /\ \A n \in 1..Len(layout) :
          /\ layout[n].hdr
          /\ layout[n].body # << >>
          /\ layout[n].body[1].cls = "row" /\ layout[n].body[1].cc = " "
          /\ \A k \in 2..Len(layout[n].body) :
                layout[n].body[k].cls \in {"page", "dspace"}
    /\ ~HasWideId(layout)

\* C14: of a stream holding two or more eigenvalue header lines,
\* parse_eigenvalues returns rows of the first table only: no row printed
\* after the second header line is in the result.
C14_FirstEigenvalueTableOnly ==
    (CalledOn /\ ConsecutiveTables /\ layout[1].kind = "eig" /\ Len(layout) >= 2) =>
        /\ ~Raises
        /\ \A n \in 2..Len(layout) :
              \A k \in 1..Len(IdsReturned) : IdsReturned[k] # layout[n].body[1].val

\* C15: n displacement, rod, shear-panel or membrane tables, each of a
\* header line, its column headers and a valid row, give n records in the
\* order of the stream, however the tables are separated.
C15_OneRecordPerTable ==
    (CalledOn /\ ConsecutiveTables /\ layout[1].kind # "eig") =>
        /\ ~Raises
        /\ Len(Records) = Len(layout)
        /\ \A n \in 1..Len(Records) :
              n <= Len(layout) => IdsOf(Records[n]) = << layout[n].body[1].val >>


\* C16: a table from which no row was parsed produces no record: every
\* record returned holds at least one row, and parse_eigenvalues returns
\* None rather than a result of empty sequences.
C16_NoEmptyRecord ==
    (answer # None /\ ~Raises) =>
        /\ \A n \in 1..Len(Records) : IdsOf(Records[n]) # << >>
        /\ ( /\ CalledOn /\ OneTable
              /\ KeptRows(layout[1].kind,
                           BeforeCode(layout[1].body, StopCodes(layout[1].kind))) = << >> )
            => Records = << >>

\* a table whose lines hold no valid row was parsed and gave no record
C16_Witness ==
    /\ CalledOn /\ OneTable /\ ~Raises
    /\ Len(layout[1].body) >= 2
    /\ \A n \in 1..Len(layout[1].body) : Failing(layout[1].body[n])
    /\ Records = << >>


\* the parallel sequences of a record have the length of its ID column
SameLengths(rec) ==
    IF "node_ids" \in DOMAIN rec
    THEN /\ Len(rec.translations) = Len(rec.node_ids)
         /\ Len(rec.rotations) = Len(rec.node_ids)
         /\ \A k \in 1..Len(rec.node_ids) :
               Len(rec.translations[k]) = 3 /\ Len(rec.rotations[k]) = 3
    ELSE IF "element_ids" \in DOMAIN rec
    THEN \A c \in DOMAIN rec.stresses : Len(rec.stresses[c]) = Len(rec.element_ids)
    ELSE /\ Len(rec.eigenvalues) = Len(rec.mode_numbers)
         /\ Len(rec.frequencies) = Len(rec.mode_numbers)
         /\ Len(rec.generalized_mass) = Len(rec.mode_numbers)
         /\ Len(rec.generalized_stiffness) = Len(rec.mode_numbers)

\* C17: in every record any parser returns, all parallel sequences have the
\* same length, shear-panel lines whose last packed group is incomplete or
\* unparseable included.
C17_ParallelSequences ==
    (answer # None /\ ~Raises) =>
        \A n \in 1..Len(Records) : SameLengths(Records[n])

\* a shear-panel line whose last packed group fails, after a group that
\* converts, was parsed into a record
C17_Witness ==
    /\ CalledOn /\ ~Raises
    /\ layout[1].kind = "shear"
    /\ layout[1].body # << >>
    /\ layout[1].body[1].cls = "groups"
    /\ Len(layout[1].body[1].groups) >= 2
    /\ Failing(layout[1].body[1])
    /\ Records # << >>


\* C18 (as stated): within every DisplacementResult returned by
\* parse_displacements the node IDs are pairwise distinct.
C18_NodeIdsDistinct ==
    (answer # None /\ answer[1].fn = "parse_displacements" /\ ~Raises) =>
        \A n \in 1..Len(Records) :
            \A i, j \in 1..Len(Records[n].node_ids) :
                i # j => Records[n].node_ids[i] # Records[n].node_ids[j]

\* C18 (amended): a DisplacementResult holds one index per parsed row, in
\* the order printed, and two of its node IDs are equal exactly when the
\* two rows carry the same ID: the parser drops no row with a repeated ID.
C18_DistinctAsPrinted ==
    (CalledOn /\ OneTable /\ layout[1].kind = "disp" /\ ~Raises) =>
        LET kept == KeptRows("disp", BeforeCode(layout[1].body, StopCodes("disp")))
        IN  /\ Len(IdsReturned) = Len(kept)
            /\ \A i, j \in 1..Len(kept) :
                  (IdsReturned[i] = IdsReturned[j]) <=> (kept[i].id = kept[j].id)

\* a displacement table printing the same node twice was parsed
C18_Witness ==
    /\ CalledOn /\ OneTable /\ layout[1].kind = "disp" /\ ~Raises
    /\ Len(layout[1].body) = 3
    /\ layout[1].body[1].cls = "row"
    /\ layout[1].body[2] = layout[1].body[1]
    /\ layout[1].body[3].cls = "row"
    /\ layout[1].body[3] # layout[1].body[1]
    /\ Len(IdsReturned) = 3


\* the stream holds a header line of the kind of table the parser called
\* looks for
HeaderPrinted ==
    \E n \in 1..Len(layout) :
        layout[n].hdr /\ ParserOf(layout[n].kind) = answer[1].fn

\* C19: of a document holding no line with a kind's header phrase, the
\* parser of that kind returns no record (an empty list, None for
\* eigenvalues) and raises no error.
C19_NoHeaderNoRecord ==
    (answer # None /\ ~HeaderPrinted) =>
        /\ ~Raises
        /\ answer[1].value = << >>

\* a parser was called on a stream that holds rows its row loop would
\* accept, under the header of another kind
C19_Witness ==
    /\ answer # None /\ ~HeaderPrinted
    /\ answer[1].fn = "parse_rod_stresses"
    /\ Len(layout) = 1
    /\ layout[1].kind = "quad" /\ layout[1].hdr
    /\ layout[1].body # << >>
    /\ layout[1].body[1].cls = "row"
    /\ answer[1].value = << >>


\* the stream is a shear-panel table whose first line is made of packed
\* groups that all convert, each with or without a margin token
C20_PackedLine ==
    /\ Len(layout) = 1
    /\ layout[1].kind = "shear" /\ layout[1].hdr
    /\ layout[1].body # << >>
    /\ layout[1].body[1].cls = "groups"
    /\ ~Failing(layout[1].body[1])

\* the two shear values every group prints: 1.2E+03 and 1.1E+03
C20_MaxShear == [kind |-> "num", m |-> 12, e |-> 2]
C20_AvgShear == [kind |-> "num", m |-> 11, e |-> 2]

\* C20: of a shear-panel line of packed groups (id, max-shear, avg-shear),
\* each optionally followed by a non-numeric margin token,
\* parse_shear_stresses appends one entry per group, in order, to
\* element_ids, max_shear and avg_shear, and stores no margin token.
C20_OneEntryPerGroup ==
    (CalledOn /\ C20_PackedLine) =>
        LET rows == layout[1].body[1].groups \o KeptRows("shear", Tail(layout[1].body))
        IN  /\ ~Raises
            /\ Len(Records) = 1
            /\ Records[1].element_ids = Vals(rows)
            /\ Records[1].stresses.max_shear = [k \in 1..Len(rows) |-> C20_MaxShear]
            /\ Records[1].stresses.avg_shear = [k \in 1..Len(rows) |-> C20_AvgShear]

\* a line of two groups, each followed by a margin token, was parsed
C20_Witness ==
    /\ CalledOn /\ C20_PackedLine
    /\ Len(layout[1].body[1].groups) = 2
    /\ \A n \in 1..2 : layout[1].body[1].groups[n].margin # ""
    /\ Len(Records) = 1
    /\ Len(Records[1].element_ids) >= 2


\* the stream is one rod table whose lines are valid rows and rows cut
\* short of their torsion column (ID, axial stress and margin only)
C21_ShortRodRows ==
    /\ PlainTable
    /\ layout[1].kind = "rod"
    /\ \A n \in 1..Len(layout[1].body) : layout[1].body[n].cls \in {"row", "few"}
    /\ \E n \in 1..Len(layout[1].body) : layout[1].body[n].cls = "few"

\* the torsion every full rod row prints, and the default of a short row: 0.0
C21_NoTorsion == [kind |-> "num", m |-> 0, e |-> 0]

\* C21: a rod-stress row with a valid integer ID and a valid axial value but
\* fewer than 4 tokens is accepted as a row with torsion 0: it is in the
\* record, and so are the rows that follow it.
C21_ShortRowHasZeroTorsion ==
    (CalledOn /\ C21_ShortRodRows) =>
        /\ ~Raises
        /\ Len(Records) = 1
        /\ Records[1].element_ids = Vals(layout[1].body)
        /\ Records[1].stresses.torsion =
              [k \in 1..Len(layout[1].body) |-> C21_NoTorsion]


(***************************************************************************)
(* Properties of a single run on every form of input (SpecDeck).           *)
(***************************************************************************)
\* C22: in the result aggregated for a document that holds two displacement
\* tables, the records carry the subcase numbers 1 and 2 by position.
C22_SubcaseByPosition ==
    (Returned(1) /\ loc[1].retval[1].output = DocSubcases) =>
        /\ Len(loc[1].retval[1].displacements) = 2
        /\ \A n \in 1..Len(loc[1].retval[1].displacements) :
              loc[1].retval[1].displacements[n].subcase = n


(***************************************************************************)
(* Properties of the column mapping (SpecParsers).                         *)
(***************************************************************************)
\* the stream is one table of kind k whose rows print a value of their own
\* in every column
ColumnTable(k) ==
    /\ CalledOn
    /\ Len(layout) = 1
    /\ layout[1].kind = k
    /\ layout[1].body # << >>
    /\ \A n \in 1..Len(layout[1].body) : layout[1].body[n].cls \in ColumnClasses

\* the number printed at position q of row number n
ColumnValue(n, q) == [kind |-> "num", m |-> 10 * n + q, e |-> 0]

\* what the rows print at position q
ColumnOf(rows, q) == [k \in 1..Len(rows) |-> ColumnValue(rows[k].val, q)]

\* C23: every accepted row of a displacement table gives, in order of
\* appearance, node ID = token 1, translation = tokens 3, 4, 5 and
\* rotation = tokens 6, 7, 8; token 2 is not stored and may be any token; a
\* row of fewer than 8 tokens is not accepted.
C23_DisplacementColumns ==
    ColumnTable("disp") =>
        LET kept == KeptRows("disp", layout[1].body)
        IN  /\ ~Raises
            /\ kept = << >> => Records = << >>
            /\ kept # << >> =>
                  /\ Len(Records) = 1
                  /\ Records[1].node_ids = Vals(kept)
                  /\ Records[1].translations =
                        [k \in 1..Len(kept) |->
                            << ColumnValue(kept[k].val, 3), ColumnValue(kept[k].val, 4),
                               ColumnValue(kept[k].val, 5) >>]
                  /\ Records[1].rotations =
                        [k \in 1..Len(kept) |->
                            << ColumnValue(kept[k].val, 6), ColumnValue(kept[k].val, 7),
                               ColumnValue(kept[k].val, 8) >>]

\* three rows numbered downwards were parsed: one whose type code is no
\* letter, one of nine tokens, a plain one
C23_Witness ==
    /\ ColumnTable("disp")
    /\ Len(layout[1].body) = 3
    /\ layout[1].body[1].cls = "odd" /\ layout[1].body[1].val = 3
    /\ layout[1].body[2].cls = "extra"
    /\ layout[1].body[3].cls = "varied"
    /\ Len(Records) = 1
    /\ Records[1].node_ids = << 3, 2, 1 >>

\* C24: every accepted row of the eigenvalue table gives, in order of
\* appearance, mode number = token 1, eigenvalue = token 3, frequency =
\* token 5, generalized mass = token 6 and generalized stiffness = token 7;
\* tokens 2 and 4 are not stored.
C24_EigenvalueColumns ==
    ColumnTable("eig") =>
        LET kept == KeptRows("eig", layout[1].body)
        IN  /\ ~Raises
            /\ kept = << >> => Records = << >>
            /\ kept # << >> =>
                  /\ Len(Records) = 1
                  /\ Records[1].mode_numbers = Vals(kept)
                  /\ Records[1].eigenvalues = ColumnOf(kept, 3)
                  /\ Records[1].frequencies = ColumnOf(kept, 5)
                  /\ Records[1].generalized_mass = ColumnOf(kept, 6)
                  /\ Records[1].generalized_stiffness = ColumnOf(kept, 7)

\* three mode rows numbered 1, 2, 3 were parsed, one of them with a radian
\* frequency that is no number, and gave the mode numbers 1, 2, 3
C24_Witness ==
    /\ ColumnTable("eig")
    /\ Len(layout[1].body) = 3
    /\ layout[1].body[2].cls = "odd"
    /\ layout[1].body[3].cls = "extra"
    /\ Len(Records) = 1
    /\ Records[1].mode_numbers = << 1, 2, 3 >>

\* C25: every accepted row of a membrane stress table gives element ID =
\* token 1, normal_x, normal_y, shear_xy = tokens 2, 3, 4 and major, minor,
\* max_shear = tokens 6, 7, 8; token 5 is not stored; the result is tagged
\* CQDMEM under the QUAD header and CTRMEM under the TRIANG header.
C25_MembraneColumns ==
    \A k \in {"quad", "tri"} :
        ColumnTable(k) =>
            LET kept == KeptRows(k, layout[1].body)
            IN  /\ ~Raises
                /\ kept = << >> => Records = << >>
                /\ kept # << >> =>
                      /\ Len(Records) = 1
                      /\ Records[1].element_ids = Vals(kept)
                      /\ Records[1].element_type =
                            (IF k = "quad" THEN "CQDMEM" ELSE "CTRMEM")
                      /\ Records[1].stresses =
                            [normal_x |-> ColumnOf(kept, 2),
                             normal_y |-> ColumnOf(kept, 3),
                             shear_xy |-> ColumnOf(kept, 4),
                             major |-> ColumnOf(kept, 6),
                             minor |-> ColumnOf(kept, 7),
                             max_shear |-> ColumnOf(kept, 8)]

\* a table of triangles was parsed: two rows, the first with an angle that
\* is no number, gave one result tagged CTRMEM
C25_Witness ==
    /\ ColumnTable("tri")
    /\ Len(layout[1].body) = 2
    /\ layout[1].body[1].cls = "odd"
    /\ layout[1].body[2].cls = "varied"
    /\ Len(Records) = 1
    /\ Records[1].element_type = "CTRMEM"
    /\ Len(Records[1].element_ids) = 2

\* the deck the engine of run t has been given: the child's standard input
\* in subprocess mode, the file input.dat of the scratch directory in f2py
\* mode
C26_Delivered(t) ==
    IF self.mode = "subprocess" THEN child[t].state # "none"
    ELSE Join(loc[t].scratch_dir, "input.dat") \in DOMAIN files

C26_Deck(t) ==
    IF self.mode = "subprocess" THEN child[t].stdin
    ELSE files[Join(loc[t].scratch_dir, "input.dat")]

\* the input names a file: a Path, or a string that is the name of a file
C26_NamesFile(d) == d.type = "Path" \/ d.value \in DOMAIN DeckFiles

\* C26 as stated: a Path, or a string naming an existing file, is replaced
\* by what the file holds, any other string is the deck itself, and the
\* engine is given that text unchanged.
C26_DeckAsStored ==
    C26_Delivered(1) =>
        C26_Deck(1) = (IF C26_NamesFile(loc[1].input_data)
                       THEN DeckFiles[loc[1].input_data.value]
                       ELSE loc[1].input_data.value)

\* C26, amended: the file is read as text, every line ending of it ("\r\n"
\* or "\r") becoming "\n": the three deck files hold the same lines under
\* different line endings and give the same deck; a string that names no
\* file is the deck itself, carriage returns included; the engine is given
\* that text unchanged.
C26_DeckAsRead ==
    C26_Delivered(1) =>
        C26_Deck(1) = (IF C26_NamesFile(loc[1].input_data)
                       THEN DeckText
                       ELSE loc[1].input_data.value)

\* an in-process run wrote input.dat from a file whose lines end in "\r\n"
\* and in "\r"
C26_Witness ==
    /\ self.mode = "f2py"
    /\ pc[1] = "f2_core"
    /\ loc[1].input_data = [type |-> "Path", value |-> MixedDeckFile]
    /\ C26_Delivered(1)
    /\ C26_Deck(1) = DeckText
    /\ DeckFiles[MixedDeckFile] # DeckText


(***************************************************************************)
(* Properties of repeated parser calls (SpecParsers).                      *)
(***************************************************************************)
\* any two calls of one parser function left the same outcome
C27_SameOutcome ==
    \A i, j \in 1..Len(answer) : answer[i].fn = answer[j].fn => answer[i] = answer[j]

C28_Result(t) == IF loc[t].result # None THEN loc[t].result ELSE loc[t].retval

\* the step of run t that assigns result.returncode, result.log and
\* result.wall_time
C28_Assigning(t) == pc[t] \in {"sp_fields", "f2_fields"}

\* C28 as stated: once the result of a run is constructed, none of its
\* fields is changed again.
C28_Immutable ==
    [][\A t \in Threads :
          C28_Result(t) # None => C28_Result(t)' = C28_Result(t)]_vars

\* C28, amended: once the result of a run is constructed, its output,
\* completed flag and record collections are never changed; returncode, log
\* and wall_time are assigned by one step of the run, before the result is
\* returned, and no field is changed by any other step or after the return.
C28_AssignedOnce ==
    [][\A t \in Threads :
          C28_Result(t) # None =>
              /\ C28_Result(t)' # None
              /\ C28_Result(t)'[1].output = C28_Result(t)[1].output
              /\ C28_Result(t)'[1].completed = C28_Result(t)[1].completed
              /\ C28_Result(t)'[1].displacements = C28_Result(t)[1].displacements
              /\ C28_Result(t)'[1].stresses = C28_Result(t)[1].stresses
              /\ C28_Result(t)'[1].eigenvalues = C28_Result(t)[1].eigenvalues
              /\ C28_Result(t)' # C28_Result(t) =>
                    /\ C28_Assigning(t)
                    /\ ~C28_Assigning(t)'
                    /\ loc[t].retval = None
                    /\ loc'[t].retval = C28_Result(t)']_vars

\* a run returned a result whose exit code and log are not those it was
\* constructed with, and which did not complete
C28_Witness ==
    /\ Returned(1)
    /\ loc[1].result # None
    /\ loc[1].retval = loc[1].result
    /\ loc[1].result[1].returncode # 0
    /\ loc[1].result[1].log # ""
    /\ ~loc[1].result[1].completed


(***************************************************************************)
(* Properties of the timeout in either mode (SpecDeck).                    *)
(***************************************************************************)
\* the engine of run t ran for longer than the timeout given to run(): the
\* child was killed at the timeout, or the in-process call returned late
C29_Exceeded(t) == child[t].state = "killed" \/ hist[t].overran

\* C29: in either mode a run that exceeds its timeout returns a result with
\* completed = False, empty output and the status -1.
C29_TimeoutInEitherMode ==
    (Done(1) /\ C29_Exceeded(1)) =>
        /\ Returned(1)
        /\ loc[1].retval[1].returncode = -1
        /\ loc[1].retval[1].output = ""
        /\ ~loc[1].retval[1].completed


(***************************************************************************)
(* Properties of two in-process runs in one process (SpecConcF2).          *)
(***************************************************************************)
\* the process environment is the environment run t set for its engine,
\* which names the scratch directory of run t, removed since
C30_LeftBy(t) ==
    /\ environ = loc[t].env
    /\ environ["DIRCTY"] = loc[t].scratch_dir
    /\ environ["LOGNM"] = Join(loc[t].scratch_dir, "run.log")
    /\ ~is_dir(loc[t].scratch_dir)

\* C30: when two in-process runs have finished, the process environment is
\* the original one unless the runs overlapped, and then it may be the
\* environment one of the runs set, DIRCTY and LOGNM naming a scratch
\* directory that has been removed.
C30_StaleAfterOverlap ==
    (Done(1) /\ Done(2)) =>
        \/ environ = StaleEnv
        \/ /\ hist[1].overlapped /\ hist[2].overlapped
           /\ \E t \in Threads : C30_LeftBy(t)

\* both runs returned a result and the environment is the one run 1 set
C30_Witness ==
    /\ Returned(1) /\ Returned(2)
    /\ C30_LeftBy(1)
    /\ environ["DIRCTY"] # StaleEnv["DIRCTY"]
    /\ environ["LOGNM"] # StaleEnv["LOGNM"]


(***************************************************************************)
(* Properties of the order of the steps of a run (Spec).                   *)
(***************************************************************************)
\* the scratch directory of run t has been created and is still there
C31_Workspace(t) == hist[t].created # None /\ is_dir(loc[t].scratch_dir)

\* the environment mapping of run t has been derived from its directory
C31_Derived(t) ==
    /\ "DIRCTY" \in DOMAIN loc[t].env
    /\ loc[t].env["DIRCTY"] = loc[t].scratch_dir

\* the engine of run t has been invoked and has ended
C31_EngineEnded(t) == child[t].state = "exited" \/ hist[t].engine_returned

\* C31 as stated, its part on the removal: the scratch directory of a run
\* is never removed before the log and output have been read.
C31_ReadBeforeRemoved ==
    \A t \in Threads : hist[t].removed # {} => hist[t].log_read

\* C31, amended: the steps a run takes, it takes in this order: directory
\* created, environment derived (in-process: applied, then the deck
\* written), engine invoked, (in-process) environment restored, output and
\* log read, result built, directory removed.  The engine is never invoked
\* before deck and environment are in place; whatever is read is read after
\* the engine ended and while the directory exists; a run that times out or
\* raises goes on to the removal without the steps between; in-process the
\* environment has been restored at the removal if the engine, or the
\* loading of it, was reached.
C31_StepsInOrder ==
    [][\A t \in Threads :
          /\ pc[t] = "mkdtemp" =>
                /\ hist[t].created = None /\ loc[t].env = EmptyMap
                /\ child[t].state = "none" /\ ~hist[t].engine_called
          /\ pc[t] \in {"sp_env", "f2_env"} =>
                /\ C31_Workspace(t)
                /\ child[t].state = "none" /\ ~hist[t].engine_called
                /\ C31_Derived(t)'
                /\ pc[t] = "f2_env" =>
                      Get(environ', "DIRCTY") = Some(loc[t].scratch_dir)
          /\ (pc[t] = "sp_spawn" /\ child'[t].state = "running") =>
                /\ C31_Workspace(t) /\ C31_Derived(t)
                /\ child'[t].env = loc[t].env
                /\ child'[t].stdin = loc[t].input_text
                /\ ~hist[t].log_read /\ loc[t].result = None
          /\ pc[t] = "f2_solve" =>
                /\ C31_Workspace(t) /\ C31_Derived(t)
                /\ \A k \in DOMAIN loc[t].env : Get(environ, k) = Some(loc[t].env[k])
                /\ Get(files, Join(loc[t].scratch_dir, "input.dat"))
                      = Some(loc[t].input_text)
                /\ ~hist[t].log_read /\ loc[t].result = None
          /\ pc[t] = "f2_restore" =>
                /\ hist[t].engine_called \/ loc[t].exc = "ImportError"
                /\ C31_Workspace(t)
                /\ ~hist[t].log_read /\ loc[t].result = None
                /\ environ' = hist[t].environ0
          /\ pc[t] \in {"sp_log", "f2_read"} =>
                /\ C31_EngineEnded(t)
                /\ C31_Workspace(t)
                /\ pc[t] = "f2_read" => environ = hist[t].environ0
                /\ ~hist[t].parsed /\ loc[t].result = None
          /\ pc[t] \in {"sp_parse", "f2_parse"} =>
                /\ hist[t].log_read
                /\ C31_Workspace(t)
          /\ pc[t] = "finally" =>
                /\ C31_Workspace(t)
                /\ child[t].state # "running"
                /\ hist[t].log_read => hist[t].parsed
                /\ hist[t].parsed => (loc[t].result # None \/ loc[t].exc # "")
                /\ (hist[t].engine_called \/ loc[t].exc = "ImportError")
                      => environ = hist[t].environ0
                /\ C31_EngineEnded(t) /\ loc[t].exc = "" => hist[t].log_read]_vars

\* an in-process run went through every step and removed its directory
C31_Witness ==
    /\ Returned(1)
    /\ self.mode = "f2py"
    /\ hist[1].engine_returned
    /\ hist[1].log_read /\ hist[1].parsed
    /\ hist[1].removed # {}
    /\ environ = hist[1].environ0


(***************************************************************************)
(* Properties of the rod rows with and without margin (SpecParsers).       *)
(***************************************************************************)
\* C32: the torsion of a rod row is the value that follows the margin:
\* token 4 of a row that prints its margin, token 3 of a row that does not;
\* no token of a following element group is stored as the torsion.
C32_TorsionFollowsMargin ==
    (CalledOn /\ layout \in RodTables) =>
        /\ ~Raises
        /\ Len(Records) = 1
        /\ Records[1].element_ids = Vals(layout[1].body)
        /\ Records[1].stresses.axial = ColumnOf(layout[1].body, 2)
        /\ Records[1].stresses.torsion = ColumnOf(layout[1].body, 4)


(***************************************************************************)
(* Properties of the lines inside the eigenvalue table (SpecParsers).      *)
(***************************************************************************)
\* the mode numbers of the mode rows of a body that precede its first
\* page-break line
RECURSIVE C33_ModesBeforePageBreak(_)
C33_ModesBeforePageBreak(body) ==
    IF body = << >> \/ Head(body).cls = "page" THEN << >>
    ELSE (IF Head(body).cls = "row" THEN << Head(body).val >> ELSE << >>)
           \o C33_ModesBeforePageBreak(Tail(body))

\* C33: in the first eigenvalue table a line starting with '*' or '+', a
\* line containing MESSAGE, a blank line, a line of fewer than 7 tokens and
\* a line with a field that is no number are skipped: the result holds every
\* mode row that precedes the next page-break line, those after such lines
\* included.
C33_SkippedLinesKeepTable ==
    (CalledOn /\ layout \in EigTables) =>
        /\ ~Raises
        /\ Len(Records) = 1
        /\ Records[1].mode_numbers = C33_ModesBeforePageBreak(layout[1].body)
        /\ Len(Records[1].eigenvalues) = Len(Records[1].mode_numbers)

\* mode 12 was accumulated after a row cut short and a message
C33_Witness ==
    /\ CalledOn /\ layout \in EigTables
    /\ layout[1].body[2].cls = "few"
    /\ layout[1].body[3].cls = "msg"
    /\ Records[1].mode_numbers = << 11, 12 >>


(***************************************************************************)
(* Properties of a table cut after its header line (SpecParsers).          *)
(***************************************************************************)
\* C34: when the header phrase of a kind is followed by no column header of
\* its own and then by a table of another kind, the parser of the first
\* kind reads no row of the later table: it yields no record.
C34_NoRowsOfLaterTable ==
    (CalledOn /\ layout \in CutTables) =>
        /\ ~Raises
        /\ Records = << >>


(***************************************************************************)
(* Properties of the loops of the parsers (SpecScan).                      *)
(***************************************************************************)
\* the number of lines of the document
C35_Lines == Len(splitlines(document))

\* C35: every iteration of the outer loop and of the row loop of a parser
\* either exits its loop or leaves the line index greater than it found it,
\* and the index never passes the end of the document by more than two
\* lines: every parser terminates on every finite document.
C35_EveryIterationAdvances ==
    [][/\ scan.loop = "outer" =>
             \/ scan'.loop = "done"
             \/ scan'.loop = "outer" /\ scan'.i > scan.i
             \/ scan'.loop = "inner" /\ scan'.acc.i > scan.i
       /\ scan.loop = "inner" =>
             \/ scan'.loop = "done"
             \/ scan'.loop = "inner" /\ scan'.acc.i > scan.acc.i /\ scan'.i = scan.i
             \/ scan'.loop = "outer" /\ scan'.i > scan.i /\ scan'.i >= scan.acc.i
       /\ scan'.i <= C35_Lines + 2
       /\ scan'.acc.i <= C35_Lines + 1]_vars

\* parse_displacements returned after it looked at the line that ended the
\* first of two tables a second time and found the header of the next on it
C35_Witness ==
    /\ scan.fn = "parse_displacements"
    /\ scan.loop = "done"
    /\ scan.i >= C35_Lines
    /\ layout \in AdjacentTables
    /\ layout[1].kind = "disp"
    /\ layout[1].body = << Row(21) >>
    /\ layout[2].cc = "1"


(***************************************************************************)
(* Properties of the width of the IDs (SpecParsers).                       *)
(***************************************************************************)
\* the rows of the table whose ID, as written, is outside int32
C36_OutOfRange ==
    { n \in DOMAIN layout[1].body :
        /\ layout[1].body[n].cls = "row"
        /\ ~fits_int32(int(layout[1].body[n].id)) }

\* the int32 stored is the integer the token writes
C36_AsWritten(stored, tok) == fits_int32(int(tok)) /\ stored = int32(int(tok))

\* C36 (as stated): a table with a row whose ID is a valid integer outside
\* -2^31..2^31-1 does not make its parser raise, and every ID of the record
\* returned is the ID written on one of the rows of the table.
C36_WideIdNeitherRaisesNorWraps ==
    (CalledOn /\ Len(answer) = 1 /\ layout \in WideTables /\ C36_OutOfRange # {}) =>
        /\ ~Raises
        /\ \A k \in DOMAIN IdsReturned :
              \E n \in DOMAIN layout[1].body :
                  /\ layout[1].body[n].cls = "row"
                  /\ C36_AsWritten(IdsReturned[k], layout[1].body[n].id)
====
